---- MODULE Spec2Model ----
(***************************************************************************)
(* NyaySaathi: the retrieval-and-answer core (Backend/app/services/        *)
(* rag_engine.py) with the collaborators it calls: the LLM client, the     *)
(* Qdrant vector store and the JSON metadata store.                        *)
(*                                                                         *)
(* Text is a sequence of Unicode code points, so substring tests, strip,   *)
(* lower and the script ranges are computed as the Python code computes    *)
(* them.  Scores are hundredths (0.35 is 35).                              *)
(***************************************************************************)
EXTENDS Integers, Sequences, FiniteSets, TLC

----------------------------------------------------------------------------
(* Strings                                                                 *)

\* str.isspace for the characters that occur: space, tab, LF, CR
IsSpace(c) == c \in {32, 9, 10, 13}

\* str.lower on one character (only ASCII letters have case here)
LowerChar(c) == IF c >= 65 /\ c <= 90 THEN c + 32 ELSE c

Lower(s) == [i \in 1..Len(s) |-> LowerChar(s[i])]

IsAsciiAlpha(c) == (c >= 65 /\ c <= 90) \/ (c >= 97 /\ c <= 122)

IsDigit(c) == c >= 48 /\ c <= 57

\* str.isalnum on one character, for the ASCII range and the Devanagari
\* block (the scripts of the model's queries): letters (Lo) and digits (Nd)
\* are alphanumeric, the dependent vowel signs and other marks (Mn, Mc) and
\* the punctuation are not.
IsAlnumChar(c) ==
    \/ IsAsciiAlpha(c)
    \/ IsDigit(c)
    \/ (c >= 2308 /\ c <= 2361) \/ c = 2365 \/ c = 2384
    \/ (c >= 2392 /\ c <= 2401) \/ (c >= 2406 /\ c <= 2415)
    \/ (c >= 2417 /\ c <= 2431)

IsAscii(s) == \A i \in 1..Len(s) : s[i] < 128

\* k in s (Python substring containment)
Contains(s, k) ==
    \E i \in 1..(Len(s) - Len(k) + 1) : SubSeq(s, i, i + Len(k) - 1) = k

\* str.strip(): drop leading and trailing whitespace
Strip(s) ==
    LET idx == {i \in 1..Len(s) : ~IsSpace(s[i])}
    IN  IF idx = {} THEN <<>>
        ELSE LET lo == CHOOSE i \in idx : \A j \in idx : i <= j
                 hi == CHOOSE i \in idx : \A j \in idx : i >= j
             IN  SubSeq(s, lo, hi)

\* len(s.split()): the number of maximal runs of non-whitespace
TokenCount(s) ==
    Cardinality({i \in 1..Len(s) : ~IsSpace(s[i]) /\ (i = 1 \/ IsSpace(s[i - 1]))})

\* s.replace(c, "") for one character c
RemoveChar(s, c) == SelectSeq(s, LAMBDA x : x # c)

\* s.split(c)[0]: the part before the first c
BeforeFirst(s, c) ==
    LET idx == {i \in 1..Len(s) : s[i] = c}
    IN  IF idx = {} THEN s
        ELSE SubSeq(s, 1, (CHOOSE i \in idx : \A j \in idx : i <= j) - 1)

\* A Python assignment: the expression is evaluated once and the name x of
\* Body stands for its value
Bind(v, Body(_)) == CHOOSE r \in {Body(x) : x \in {v}} : TRUE

----------------------------------------------------------------------------
(* Literals of the source                                                  *)

\* _SMALLTALK: the literal greetings
SMALLTALK ==
    { <<104, 105>>,
      <<104, 101, 108, 108, 111>>,
      <<104, 101, 121>>,
      <<121, 111>>,
      <<115, 117, 112>>,
      <<104, 111, 108, 97>>,
      <<110, 97, 109, 97, 115, 116, 101>>,
      <<104, 105, 33>>,
      <<104, 101, 108, 108, 111, 33>>,
      <<104, 101, 121, 33>>,
      <<104, 105, 32, 116, 104, 101, 114, 101>>,
      <<104, 101, 108, 108, 111, 32, 116, 104, 101, 114, 101>> }

\* the greeting substrings of _is_smalltalk
greeting_words ==
    { <<104, 105>>,
      <<104, 101, 108, 108, 111>>,
      <<104, 101, 121>>,
      <<110, 97, 109, 97, 115, 116, 101>>,
      <<104, 111, 108, 97>> }

\* romanized Hindi marker tokens of _detect_lang
rom_hi_markers ==
    { <<109, 111, 111, 108, 32, 97, 100, 104, 105, 107, 97, 114>>,
      <<97, 100, 104, 105, 107, 97, 114>>,
      <<107, 97, 117, 110, 115, 101>>,
      <<107, 97, 117, 110, 32, 115, 105>>,
      <<107, 121, 97, 32, 104, 97, 105>>,
      <<107, 121, 97, 32, 104, 97, 105, 110>>,
      <<107, 121, 97, 32, 104>>,
      <<109, 101, 114, 101>>,
      <<109, 101, 114, 97>>,
      <<104, 97, 105, 110>>,
      <<104, 97, 105>>,
      <<110, 121, 97, 121>>,
      <<107, 97, 110, 117, 110>>,
      <<97, 100, 104, 105, 110, 105, 121, 97, 109>>,
      <<100, 104, 97, 114, 97>>,
      <<97, 110, 117, 99, 104, 104, 101, 100>> }

\* keywords of the fundamental_rights_all intent (English, Hindi, Hinglish, Punjabi, Bengali)
fundamental_rights_all_kw ==
    { <<97, 108, 108, 32, 102, 117, 110, 100, 97, 109, 101, 110, 116, 97, 108, 32, 114, 105, 103, 104, 116, 115>>,
      <<108, 105, 115, 116, 32, 102, 117, 110, 100, 97, 109, 101, 110, 116, 97, 108, 32, 114, 105, 103, 104, 116, 115>>,
      <<101, 110, 117, 109, 101, 114, 97, 116, 101, 32, 102, 117, 110, 100, 97, 109, 101, 110, 116, 97, 108, 32, 114, 105, 103, 104, 116, 115>>,
      <<103, 105, 118, 101, 32, 109, 101, 32, 97, 108, 108, 32, 109, 121, 32, 102, 117, 110, 100, 97, 109, 101, 110, 116, 97, 108, 32, 114, 105, 103, 104, 116, 115>>,
      <<119, 104, 97, 116, 32, 97, 114, 101, 32, 97, 108, 108, 32, 109, 121, 32, 102, 117, 110, 100, 97, 109, 101, 110, 116, 97, 108, 32, 114, 105, 103, 104, 116, 115>>,
      <<119, 104, 97, 116, 32, 97, 114, 101, 32, 109, 121, 32, 102, 117, 110, 100, 97, 109, 101, 110, 116, 97, 108, 32, 114, 105, 103, 104, 116, 115>>,
      <<119, 104, 97, 116, 32, 97, 114, 101, 32, 116, 104, 101, 32, 102, 117, 110, 100, 97, 109, 101, 110, 116, 97, 108, 32, 114, 105, 103, 104, 116, 115>>,
      <<102, 117, 110, 100, 97, 109, 101, 110, 116, 97, 108, 32, 114, 105, 103, 104, 116, 115, 32, 108, 105, 115, 116>>,
      <<108, 105, 115, 116, 32, 111, 102, 32, 102, 117, 110, 100, 97, 109, 101, 110, 116, 97, 108, 32, 114, 105, 103, 104, 116, 115>>,
      <<2350, 2380, 2354, 2367, 2325, 32, 2309, 2343, 2367, 2325, 2366, 2352>>,
      <<2360, 2349, 2368, 32, 2350, 2380, 2354, 2367, 2325, 32, 2309, 2343, 2367, 2325, 2366, 2352>>,
      <<2350, 2380, 2354, 2367, 2325, 32, 2309, 2343, 2367, 2325, 2366, 2352, 2379, 2306, 32, 2325, 2368, 32, 2360, 2370, 2330, 2368>>,
      <<109, 111, 111, 108, 32, 97, 100, 104, 105, 107, 97, 114>>,
      <<115, 97, 98, 104, 105, 32, 109, 111, 111, 108, 32, 97, 100, 104, 105, 107, 97, 114>>,
      <<109, 111, 111, 108, 32, 97, 100, 104, 105, 107, 97, 114, 32, 107, 105, 32, 115, 111, 111, 99, 104, 105>>,
      <<109, 101, 114, 101, 32, 109, 111, 111, 108, 32, 97, 100, 104, 105, 107, 97, 114>>,
      <<109, 111, 111, 108, 32, 97, 100, 104, 105, 107, 97, 114, 32, 107, 97, 117, 110, 115, 101>>,
      <<109, 111, 111, 108, 32, 97, 100, 104, 105, 107, 97, 114, 32, 107, 97, 117, 110, 32, 115, 101>>,
      <<109, 101, 114, 101, 32, 107, 121, 97, 32, 109, 111, 111, 108, 32, 97, 100, 104, 105, 107, 97, 114>>,
      <<2606, 2626, 2610, 32, 2565, 2599, 2623, 2581, 2622, 2608>>,
      <<2616, 2622, 2608, 2631, 32, 2606, 2626, 2610, 32, 2565, 2599, 2623, 2581, 2622, 2608>>,
      <<2606, 2626, 2610, 32, 2565, 2599, 2623, 2581, 2622, 2608, 2622, 2562, 32, 2598, 2624, 32, 2616, 2626, 2586, 2624>>,
      <<2478, 2508, 2482, 2495, 2453, 32, 2437, 2471, 2495, 2453, 2494, 2480>>,
      <<2488, 2478, 2488, 2509, 2468, 32, 2478, 2508, 2482, 2495, 2453, 32, 2437, 2471, 2495, 2453, 2494, 2480>>,
      <<2478, 2508, 2482, 2495, 2453, 32, 2437, 2471, 2495, 2453, 2494, 2480, 2503, 2480, 32, 2468, 2494, 2482, 2495, 2453, 2494>> }

\* keywords of the right_to_equality intent
right_to_equality_kw ==
    { <<114, 105, 103, 104, 116, 32, 116, 111, 32, 101, 113, 117, 97, 108, 105, 116, 121>>,
      <<101, 113, 117, 97, 108, 105, 116, 121, 32, 98, 101, 102, 111, 114, 101, 32, 108, 97, 119>>,
      <<97, 114, 116, 105, 99, 108, 101, 115, 32, 49, 52, 45, 49, 56>>,
      <<97, 114, 116, 105, 99, 108, 101, 32, 49, 52>>,
      <<97, 114, 116, 105, 99, 108, 101, 32, 49, 53>>,
      <<97, 114, 116, 105, 99, 108, 101, 32, 49, 54>>,
      <<97, 114, 116, 105, 99, 108, 101, 32, 49, 55>>,
      <<97, 114, 116, 105, 99, 108, 101, 32, 49, 56>> }

\* the query "hi"
Q_hi == <<104, 105>>

\* the query "what is bail"
Q_bail == <<119, 104, 97, 116, 32, 105, 115, 32, 98, 97, 105, 108>>

\* the query "mere mool adhikar"
Q_mere == <<109, 101, 114, 101, 32, 109, 111, 111, 108, 32, 97, 100, 104, 105, 107, 97, 114>>

\* the query "list all fundamental rights"
Q_list == <<108, 105, 115, 116, 32, 97, 108, 108, 32, 102, 117, 110, 100, 97, 109, 101, 110, 116, 97, 108, 32, 114, 105, 103, 104, 116, 115>>

\* the query "article 14"
Q_art14 == <<97, 114, 116, 105, 99, 108, 101, 32, 49, 52>>

\* the query "section 69a"
Q_sec69a == <<115, 101, 99, 116, 105, 111, 110, 32, 54, 57, 97>>

\* the query "article 19"
Q_art19 == <<97, 114, 116, 105, 99, 108, 101, 32, 49, 57>>

\* language code "en"
EN == <<101, 110>>

\* language code "hi"
HI == <<104, 105>>

\* language code "ta"
TA == <<116, 97>>

\* language code "pa"
PA == <<112, 97>>

\* language code "bn"
BN == <<98, 110>>

\* languages with a localized greeting and guidance text
LocalizedMessageLangs ==
    { <<104, 105>>,
      <<98, 110>>,
      <<116, 97>>,
      <<116, 101>>,
      <<109, 114>>,
      <<107, 110>>,
      <<109, 108>>,
      <<103, 117>>,
      <<112, 97>>,
      <<117, 114>>,
      <<111, 114>> }

\* languages with a localized fundamental-rights enumeration
LocalizedRightsLangs ==
    { <<104, 105>>,
      <<112, 97>>,
      <<98, 110>> }

\* the text "hi"
Raw_hi == <<104, 105>>

\* the text " taU+000A "
Raw_ta == <<32, 116, 97, 10>>

\* the text "HI-in"
Raw_HIin == <<72, 73, 45, 105, 110>>

\* the text "hi."
Raw_bad == <<104, 105, 46>>

\* the text "ok"
T_ok == <<111, 107>>

\* the text " "
T_blank == <<32>>

\* the text " okU+000A "
T_ok_padded == <<32, 111, 107, 10>>

----------------------------------------------------------------------------
(* Intent and language classifier                                          *)

is_smalltalk(query) ==
    LET q == Lower(Strip(query))
    IN  IF q = <<>> THEN FALSE
        ELSE IF q \in SMALLTALK THEN TRUE
        ELSE /\ TokenCount(q) <= 3
             /\ \A i \in 1..Len(q) : IsAlnumChar(q[i]) \/ IsSpace(q[i])
             /\ \E w \in greeting_words : Contains(q, w)

\* The language of the first character that lies in one of the script
\* ranges, "en" when there is none.
ScriptLang(c) ==
    IF c >= 2304 /\ c <= 2431 THEN HI
    ELSE IF c >= 2432 /\ c <= 2559 THEN BN
    ELSE IF c >= 2560 /\ c <= 2687 THEN PA
    ELSE IF c >= 2688 /\ c <= 2815 THEN <<103, 117>>
    ELSE IF c >= 2816 /\ c <= 2943 THEN <<111, 114>>
    ELSE IF c >= 2944 /\ c <= 3071 THEN TA
    ELSE IF c >= 3072 /\ c <= 3199 THEN <<116, 101>>
    ELSE IF c >= 3200 /\ c <= 3327 THEN <<107, 110>>
    ELSE IF c >= 3328 /\ c <= 3455 THEN <<109, 108>>
    ELSE IF (c >= 1536 /\ c <= 1791) \/ (c >= 1872 /\ c <= 1919) \/ (c >= 2208 /\ c <= 2303)
         THEN <<117, 114>>
    ELSE <<>>

detect_lang(query) ==
    LET ql == Lower(query)
        hits == {i \in 1..Len(query) : ScriptLang(query[i]) # <<>>}
    IN  IF (\E tok \in rom_hi_markers : Contains(ql, tok)) /\ IsAscii(ql) THEN HI
        ELSE IF hits = {} THEN EN
        ELSE ScriptLang(query[CHOOSE i \in hits : \A j \in hits : i <= j])

\* The sanity filter of _detect_lang_via_llm on the model's raw output
ValidLangCode(code) ==
    /\ Len(code) >= 1 /\ Len(code) <= 10
    /\ IsAscii(code)
    /\ LET bare == RemoveChar(code, 45)
       IN  bare # <<>> /\ \A i \in 1..Len(bare) : IsAsciiAlpha(bare[i])

\* _detect_lang_via_llm: r is the outcome of the LLM call, [ok, text]
detect_lang_via_llm(r) ==
    IF ~r.ok THEN EN
    ELSE LET code == Lower(Strip(r.text))
         IN  IF ValidLangCode(code) THEN BeforeFirst(code, 45) ELSE EN

detect_intent(query) ==
    LET q == Lower(query)
    IN  [fundamental_rights_all |-> \E kw \in fundamental_rights_all_kw : Contains(q, kw),
         right_to_equality |-> \E kw \in right_to_equality_kw : Contains(q, kw)]

\* restriction_terms of the reranker
restriction_terms ==
    { <<114, 101, 97, 115, 111, 110, 97, 98, 108, 101, 32, 114, 101, 115, 116, 114, 105, 99, 116, 105, 111, 110>>,
      <<115, 117, 98, 106, 101, 99, 116, 32, 116, 111>>,
      <<110, 111, 116, 119, 105, 116, 104, 115, 116, 97, 110, 100, 105, 110, 103>>,
      <<114, 101, 115, 116, 114, 105, 99, 116, 105, 111, 110>>,
      <<101, 120, 99, 101, 112, 116, 105, 111, 110>>,
      <<114, 101, 115, 101, 114, 118, 97, 116, 105, 111, 110>>,
      <<99, 108, 97, 115, 115, 105, 102, 105, 99, 97, 116, 105, 111, 110>>,
      <<105, 110, 116, 101, 108, 108, 105, 103, 105, 98, 108, 101, 32, 100, 105, 102, 102, 101, 114, 101, 110, 116, 105, 97>>,
      <<114, 97, 116, 105, 111, 110, 97, 108, 32, 110, 101, 120, 117, 115>>,
      <<112, 117, 98, 108, 105, 99, 32, 111, 114, 100, 101, 114>>,
      <<109, 111, 114, 97, 108, 105, 116, 121>>,
      <<115, 101, 99, 117, 114, 105, 116, 121, 32, 111, 102, 32, 115, 116, 97, 116, 101>> }

\* procedural_terms of the reranker
procedural_terms ==
    { <<112, 114, 111, 99, 101, 100, 117, 114, 101>>,
      <<115, 97, 102, 101, 103, 117, 97, 114, 100>>,
      <<114, 101, 97, 115, 111, 110, 115, 32, 116, 111, 32, 98, 101, 32, 114, 101, 99, 111, 114, 100, 101, 100, 32, 105, 110, 32, 119, 114, 105, 116, 105, 110, 103>>,
      <<98, 121, 32, 111, 114, 100, 101, 114>>,
      <<115, 117, 98, 106, 101, 99, 116, 32, 116, 111, 32, 116, 104, 101, 32, 112, 114, 111, 118, 105, 115, 105, 111, 110, 115, 32, 111, 102, 32, 115, 117, 98, 45, 115, 101, 99, 116, 105, 111, 110>>,
      <<114, 117, 108, 101, 115, 32, 109, 97, 121, 32, 98, 101, 32, 112, 114, 101, 115, 99, 114, 105, 98, 101, 100>>,
      <<98, 108, 111, 99, 107>>,
      <<98, 108, 111, 99, 107, 105, 110, 103>>,
      <<105, 110, 116, 101, 114, 99, 101, 112, 116>>,
      <<109, 111, 110, 105, 116, 111, 114>>,
      <<100, 101, 99, 114, 121, 112, 116>> }

\* the cues of _invoked_articles that add Article 19
article19_cues ==
    { <<112, 117, 98, 108, 105, 99, 32, 111, 114, 100, 101, 114>>,
      <<100, 101, 99, 101, 110, 99, 121>>,
      <<109, 111, 114, 97, 108, 105, 116, 121>>,
      <<115, 111, 118, 101, 114, 101, 105, 103, 110, 116, 121>>,
      <<115, 101, 99, 117, 114, 105, 116, 121, 32, 111, 102, 32, 116, 104, 101, 32, 115, 116, 97, 116, 101>>,
      <<102, 114, 101, 101, 32, 115, 112, 101, 101, 99, 104>>,
      <<102, 114, 101, 101, 100, 111, 109, 32, 111, 102, 32, 115, 112, 101, 101, 99, 104>>,
      <<97, 114, 116, 105, 99, 108, 101, 32, 49, 57>> }

\* the text "Constitution of India"
Title_constitution == <<67, 111, 110, 115, 116, 105, 116, 117, 116, 105, 111, 110, 32, 111, 102, 32, 73, 110, 100, 105, 97>>

\* the text "IT Act 2000"
Title_it_act == <<73, 84, 32, 65, 99, 116, 32, 50, 48, 48, 48>>

\* the text "freedom of speech subject to public order"
Text_A0 == <<102, 114, 101, 101, 100, 111, 109, 32, 111, 102, 32, 115, 112, 101, 101, 99, 104, 32, 115, 117, 98, 106, 101, 99, 116, 32, 116, 111, 32, 112, 117, 98, 108, 105, 99, 32, 111, 114, 100, 101, 114>>

\* the text "equality before law"
Text_A1 == <<101, 113, 117, 97, 108, 105, 116, 121, 32, 98, 101, 102, 111, 114, 101, 32, 108, 97, 119>>

\* the text "blocking procedure for websites"
Text_B0 == <<98, 108, 111, 99, 107, 105, 110, 103, 32, 112, 114, 111, 99, 101, 100, 117, 114, 101, 32, 102, 111, 114, 32, 119, 101, 98, 115, 105, 116, 101, 115>>

\* the built-in default of _load_legal_links: key, Linked_Sections, Keywords
DefaultLinkMap ==
    << [key |-> <<49, 57, 40, 49, 41, 40, 97, 41>>, Linked_Sections |-> <<<<54, 57, 65, 32, 73, 84, 32, 65, 99, 116>>, <<54, 57, 32, 73, 84, 32, 65, 99, 116>>>>,
        Keywords |-> <<<<115, 112, 101, 101, 99, 104>>, <<112, 117, 98, 108, 105, 115, 104>>, <<98, 97, 110>>, <<101, 120, 112, 114, 101, 115, 115, 105, 111, 110>>, <<99, 101, 110, 115, 111, 114, 115, 104, 105, 112>>>>],
       [key |-> <<49, 57, 40, 50, 41>>, Linked_Sections |-> <<<<54, 57, 65, 32, 73, 84, 32, 65, 99, 116>>>>,
        Keywords |-> <<<<114, 101, 97, 115, 111, 110, 97, 98, 108, 101, 32, 114, 101, 115, 116, 114, 105, 99, 116, 105, 111, 110>>, <<112, 117, 98, 108, 105, 99, 32, 111, 114, 100, 101, 114>>, <<100, 101, 99, 101, 110, 99, 121>>, <<109, 111, 114, 97, 108, 105, 116, 121>>, <<115, 101, 99, 117, 114, 105, 116, 121, 32, 111, 102, 32, 116, 104, 101, 32, 115, 116, 97, 116, 101>>, <<115, 111, 118, 101, 114, 101, 105, 103, 110, 116, 121>>>>],
       [key |-> <<51, 50>>, Linked_Sections |-> <<>>,
        Keywords |-> <<<<119, 114, 105, 116>>, <<114, 101, 109, 101, 100, 121>>>>],
       [key |-> <<50, 50, 54>>, Linked_Sections |-> <<>>,
        Keywords |-> <<<<119, 114, 105, 116>>, <<104, 105, 103, 104, 32, 99, 111, 117, 114, 116>>>>] >>

\* the keywords _expand_query adds for Section 69 / 69A
Section69Keywords ==
    << <<112, 117, 98, 108, 105, 99, 32, 111, 114, 100, 101, 114>>,
       <<114, 101, 97, 115, 111, 110, 97, 98, 108, 101, 32, 114, 101, 115, 116, 114, 105, 99, 116, 105, 111, 110>>,
       <<112, 114, 111, 99, 101, 100, 117, 114, 101>>,
       <<115, 97, 102, 101, 103, 117, 97, 114, 100>> >>

\* a translated answer (Devanagari)
T_translated == <<2336, 2368, 2325>>

\* the words of the citation patterns
Word ==
    [
      \* "article"
      article |-> <<97, 114, 116, 105, 99, 108, 101>>,
      \* "section"
      section |-> <<115, 101, 99, 116, 105, 111, 110>>,
      \* "part"
      part |-> <<112, 97, 114, 116>>,
      \* "chapter"
      chapter |-> <<99, 104, 97, 112, 116, 101, 114>> ]

\* the phrases the retrieval code looks for or writes
Phrase ==
    [
      \* "right to equality"
      right_to_equality |-> <<114, 105, 103, 104, 116, 32, 116, 111, 32, 101, 113, 117, 97, 108, 105, 116, 121>>,
      \* "equality before law"
      equality_before_law |-> <<101, 113, 117, 97, 108, 105, 116, 121, 32, 98, 101, 102, 111, 114, 101, 32, 108, 97, 119>>,
      \* "right to freedom"
      right_to_freedom |-> <<114, 105, 103, 104, 116, 32, 116, 111, 32, 102, 114, 101, 101, 100, 111, 109>>,
      \* "right against exploitation"
      right_against_exploitation |-> <<114, 105, 103, 104, 116, 32, 97, 103, 97, 105, 110, 115, 116, 32, 101, 120, 112, 108, 111, 105, 116, 97, 116, 105, 111, 110>>,
      \* "freedom of religion"
      freedom_of_religion |-> <<102, 114, 101, 101, 100, 111, 109, 32, 111, 102, 32, 114, 101, 108, 105, 103, 105, 111, 110>>,
      \* "cultural"
      cultural |-> <<99, 117, 108, 116, 117, 114, 97, 108>>,
      \* "educational"
      educational |-> <<101, 100, 117, 99, 97, 116, 105, 111, 110, 97, 108>>,
      \* "constitutional remedies"
      constitutional_remedies |-> <<99, 111, 110, 115, 116, 105, 116, 117, 116, 105, 111, 110, 97, 108, 32, 114, 101, 109, 101, 100, 105, 101, 115>>,
      \* "information technology"
      information_technology |-> <<105, 110, 102, 111, 114, 109, 97, 116, 105, 111, 110, 32, 116, 101, 99, 104, 110, 111, 108, 111, 103, 121>>,
      \* "it_act"
      it_act_us |-> <<105, 116, 95, 97, 99, 116>>,
      \* "it act"
      it_act |-> <<105, 116, 32, 97, 99, 116>>,
      \* "code of criminal procedure"
      code_of_criminal_procedure |-> <<99, 111, 100, 101, 32, 111, 102, 32, 99, 114, 105, 109, 105, 110, 97, 108, 32, 112, 114, 111, 99, 101, 100, 117, 114, 101>>,
      \* "crpc"
      crpc |-> <<99, 114, 112, 99>>,
      \* "section 69a"
      section_69a |-> <<115, 101, 99, 116, 105, 111, 110, 32, 54, 57, 97>>,
      \* "section 69"
      section_69 |-> <<115, 101, 99, 116, 105, 111, 110, 32, 54, 57>>,
      \* "19(1)(a)"
      key_19_1_a |-> <<49, 57, 40, 49, 41, 40, 97, 41>>,
      \* "19(2)"
      key_19_2 |-> <<49, 57, 40, 50, 41>>,
      \* "; related sections: "
      related_sections |-> <<59, 32, 114, 101, 108, 97, 116, 101, 100, 32, 115, 101, 99, 116, 105, 111, 110, 115, 58, 32>>,
      \* "; constitutional grounds: Article 19(2) public order/sovereignty/decency/morality"
      constitutional_grounds |-> <<59, 32, 99, 111, 110, 115, 116, 105, 116, 117, 116, 105, 111, 110, 97, 108, 32, 103, 114, 111, 117, 110, 100, 115, 58, 32, 65, 114, 116, 105, 99, 108, 101, 32, 49, 57, 40, 50, 41, 32, 112, 117, 98, 108, 105, 99, 32, 111, 114, 100, 101, 114, 47, 115, 111, 118, 101, 114, 101, 105, 103, 110, 116, 121, 47, 100, 101, 99, 101, 110, 99, 121, 47, 109, 111, 114, 97, 108, 105, 116, 121>> ]

\* article and section numbers as text
Numeral ==
    [
      \* "19"
      n19 |-> <<49, 57>>,
      \* "14"
      n14 |-> <<49, 52>>,
      \* "69A"
      n69A |-> <<54, 57, 65>>,
      \* "69"
      n69 |-> <<54, 57>>,
      \* "144"
      n144 |-> <<49, 52, 52>> ]

----------------------------------------------------------------------------
(* Numeric constants of the source                                         *)

\* MIN_SCORE = 0.35, in hundredths
MIN_SCORE == 35

\* QdrantStore._with_retries: attempts = 3
VS_ATTEMPTS == 3

\* retrieve_context(query, top_k = 10)
DEFAULT_TOP_K == 10

\* adaptive_k = 5 if a citation was detected else 10
ADAPTIVE_K_REF == 5

ADAPTIVE_K_BROAD == 10

\* the enumeration fan-out searches at k = 3, adds the combined query at
\* k = 12 when fewer than 12 chunks were gathered, and returns max(top_k, 24)
ENUM_K == 3

ENUM_MIN == 12

ENUM_CAP == 24

\* for i in range(2): the retry loops of answer()
RETRY_ATTEMPTS == 2

----------------------------------------------------------------------------
(* Reference extraction and query expansion                                *)

IsLowerAlpha(c) == c >= 97 /\ c <= 122

UpperChar(c) == IF IsLowerAlpha(c) THEN c - 32 ELSE c

Upper(s) == [i \in 1..Len(s) |-> UpperChar(s[i])]

IsRoman(c) == c \in {105, 118, 120, 108, 99, 100, 109}

\* The first index >= j of s that holds no whitespace (Len(s) + 1 if none)
SkipSpaces(s, j) ==
    LET idx == {i \in j..Len(s) : ~IsSpace(s[i])}
    IN  IF idx = {} THEN Len(s) + 1 ELSE CHOOSE i \in idx : \A k \in idx : i <= k

\* The last index of the maximal run of characters satisfying P that starts
\* at p (p - 1 when s[p] does not satisfy P)
RunEnd(s, p, P(_)) ==
    LET ends == {e \in p..Len(s) : \A k \in p..e : P(s[k])}
    IN  IF ends = {} THEN p - 1 ELSE CHOOSE e \in ends : \A k \in ends : e >= k

\* The number written by the digits of s, int(re.sub(r"[^0-9]", "", s));
\* 0 stands for the ValueError of an empty digit string (art_num = None),
\* which the callers treat like the falsy 0.
RECURSIVE DigitsValue(_)
DigitsValue(d) ==
    IF d = <<>> THEN 0
    ELSE 10 * DigitsValue(SubSeq(d, 1, Len(d) - 1)) + (d[Len(d)] - 48)

ToInt(s) == DigitsValue(SelectSeq(s, IsDigit))

\* The group captured by  word\s+(\d+[a-z]?)  matched at index i of ql,
\* <<>> when the pattern does not match there
NumRefAt(ql, word, i) ==
    LET j  == i + Len(word)
        p  == SkipSpaces(ql, j)
        e  == RunEnd(ql, p, IsDigit)
        e2 == IF e + 1 <= Len(ql) /\ IsLowerAlpha(ql[e + 1]) THEN e + 1 ELSE e
    IN  IF j - 1 <= Len(ql) /\ SubSeq(ql, i, j - 1) = word /\ p > j /\ e >= p
        THEN SubSeq(ql, p, e2) ELSE <<>>

\* The group captured by  article\s+(\d+[a-z]?(?:\([^)]+\))?)  at index i
ArticleRefAt(ql, i) ==
    LET base == NumRefAt(ql, Word.article, i)
        p  == SkipSpaces(ql, i + Len(Word.article))
        e2 == p + Len(base) - 1
        closes == {c \in (e2 + 3)..Len(ql) : ql[c] = 41 /\ \A k \in (e2 + 2)..(c - 1) : ql[k] # 41}
    IN  IF base = <<>> THEN <<>>
        ELSE IF e2 + 1 <= Len(ql) /\ ql[e2 + 1] = 40 /\ closes # {}
             THEN SubSeq(ql, p, CHOOSE c \in closes : TRUE)
             ELSE base

\* The group captured by  word\s+([ivxlcdm]+|\d+)  at index i
RomanRefAt(ql, word, i) ==
    LET j  == i + Len(word)
        p  == SkipSpaces(ql, j)
        er == RunEnd(ql, p, IsRoman)
        ed == RunEnd(ql, p, IsDigit)
    IN  IF j - 1 <= Len(ql) /\ SubSeq(ql, i, j - 1) = word /\ p > j
        THEN IF er >= p THEN SubSeq(ql, p, er)
             ELSE IF ed >= p THEN SubSeq(ql, p, ed) ELSE <<>>
        ELSE <<>>

\* re.findall: the captured groups in the order of their positions
NonEmptyOnly(caps) == SelectSeq(caps, LAMBDA c : c # <<>>)

\* _detect_legal_refs
detect_legal_refs(q) ==
    LET ql   == Lower(q)
        arts == NonEmptyOnly([i \in 1..Len(ql) |-> ArticleRefAt(ql, i)])
        secs == NonEmptyOnly([i \in 1..Len(ql) |-> NumRefAt(ql, Word.section, i)])
    IN  [articles |-> arts, sections |-> secs, has_ref |-> arts # <<>> \/ secs # <<>>]

\* retrieve_context._extract_refs
extract_refs(q) ==
    LET ql == Lower(q)
    IN  [article |-> NonEmptyOnly([i \in 1..Len(ql) |-> NumRefAt(ql, Word.article, i)]),
         section |-> NonEmptyOnly([i \in 1..Len(ql) |-> NumRefAt(ql, Word.section, i)]),
         part    |-> NonEmptyOnly([i \in 1..Len(ql) |-> RomanRefAt(ql, Word.part, i)]),
         chapter |-> NonEmptyOnly([i \in 1..Len(ql) |-> RomanRefAt(ql, Word.chapter, i)])]

Range(f) == {f[i] : i \in DOMAIN f}

\* sep.join(parts)
RECURSIVE Join(_, _)
Join(parts, sep) ==
    IF parts = <<>> THEN <<>>
    ELSE IF Len(parts) = 1 THEN parts[1]
    ELSE parts[1] \o sep \o Join(Tail(parts), sep)

RECURSIVE Flatten(_)
Flatten(ss) == IF ss = <<>> THEN <<>> ELSE ss[1] \o Flatten(Tail(ss))

\* a < b in the order of Python strings
RECURSIVE StrLess(_, _)
StrLess(a, b) ==
    IF b = <<>> THEN FALSE
    ELSE IF a = <<>> THEN TRUE
    ELSE IF a[1] # b[1] THEN a[1] < b[1]
    ELSE StrLess(Tail(a), Tail(b))

\* sorted(set(items))
RECURSIVE SortedStrings(_)
SortedStrings(S) ==
    IF S = {} THEN <<>>
    ELSE LET m == CHOOSE x \in S : \A y \in S \ {x} : StrLess(x, y)
         IN  <<m>> \o SortedStrings(S \ {m})

\* links.get(key) or {}
LinkCfg(links, key) ==
    LET idx == {i \in 1..Len(links) : links[i].key = key}
    IN  IF idx = {} THEN [key |-> key, Linked_Sections |-> <<>>, Keywords |-> <<>>]
        ELSE links[CHOOSE i \in idx : TRUE]

\* The link-map keys looked up for one detected article
ArticleKeys(a) ==
    LET a_key == Upper(a)
    IN  IF a_key = Numeral.n19 THEN <<Phrase.key_19_1_a, Phrase.key_19_2>> ELSE <<a_key>>

\* _expand_query: <<expanded, kw_query>>
expand_query(q, det, links) ==
    LET keys    == Flatten([i \in 1..Len(det.articles) |-> ArticleKeys(det.articles[i])])
        cfgs    == [i \in 1..Len(keys) |-> LinkCfg(links, keys[i])]
        artToks == [i \in 1..Len(cfgs) |->
                       IF cfgs[i].Linked_Sections # <<>>
                       THEN Phrase.related_sections \o Join(cfgs[i].Linked_Sections, <<44, 32>>)
                       ELSE <<>>]
        artKws  == Flatten([i \in 1..Len(cfgs) |-> cfgs[i].Keywords])
        is69(s) == Upper(s) \in {Numeral.n69A, Numeral.n69}
        secToks == [i \in 1..Len(det.sections) |->
                       IF is69(det.sections[i]) THEN Phrase.constitutional_grounds ELSE <<>>]
        secKws  == Flatten([i \in 1..Len(det.sections) |->
                       IF is69(det.sections[i]) THEN Section69Keywords ELSE <<>>])
        tokens  == <<q>> \o NonEmptyOnly(artToks) \o NonEmptyOnly(secToks)
        kws     == artKws \o secKws
    IN  << Strip(Join(tokens, <<32>>)),
           IF kws # <<>> THEN q \o <<32>> \o Join(SortedStrings(Range(kws)), <<32>>) ELSE q >>

----------------------------------------------------------------------------
(* Vector store (QdrantStore) and the corpus                               *)

DocIds == {"A", "B"}

\* The payloads ingestion stores, as doc_ingestion.ingest_file builds them;
\* "" stands for an absent metadata field.
Chunk_A0 ==
    [doc_id |-> "A", chunk_id |-> 0, text |-> Text_A0, title |-> Title_constitution,
     article |-> Numeral.n19, section |-> <<>>, part |-> <<>>, chapter |-> <<>>, tags |-> {}]

Chunk_A1 ==
    [doc_id |-> "A", chunk_id |-> 1, text |-> Text_A1, title |-> Title_constitution,
     article |-> Numeral.n14, section |-> <<>>, part |-> <<>>, chapter |-> <<>>, tags |-> {}]

Chunk_B0 ==
    [doc_id |-> "B", chunk_id |-> 0, text |-> Text_B0, title |-> Title_it_act,
     article |-> <<>>, section |-> Numeral.n69A, part |-> <<>>, chapter |-> <<>>,
     tags |-> {"procedure", "blocking"}]

CorpusSeq == <<Chunk_A0, Chunk_A1, Chunk_B0>>

Corpus == Range(CorpusSeq)

ChunksOf(d) == {c \in Corpus : c.doc_id = d}

\* The similarity scores (hundredths) the store may report for a chunk
ScoreVals == {34, 35}

\* The similarity functions over the points pts: the cosine score of every
\* point for one query text
SimsOver(pts) == [pts -> ScoreVals]

\* The similarity functions that score all points alike
FlatSims(pts) == {[c \in pts |-> v] : v \in ScoreVals}

\* QdrantStore._with_retries: fails is the number of consecutive failing
\* calls of the client function; the call is made at most VS_ATTEMPTS times.
with_retries(fails) ==
    IF fails < VS_ATTEMPTS THEN [ok |-> TRUE, calls |-> fails + 1]
    ELSE [ok |-> FALSE, calls |-> VS_ATTEMPTS]

\* The first n elements of a sequence, s[:n]
Take(s, n) == SubSeq(s, 1, IF n < Len(s) THEN n ELSE Len(s))

Key(m) == <<m.doc_id, m.chunk_id>>

\* A search hit: the payload with the score of the point
Hit(c, score) ==
    [doc_id |-> c.doc_id, chunk_id |-> c.chunk_id, text |-> c.text, score |-> score,
     title |-> c.title, article |-> c.article, section |-> c.section, part |-> c.part,
     chapter |-> c.chapter, tags |-> c.tags]

\* The points of pts by descending score (equal scores in corpus order)
RECURSIVE RankPoints(_, _)
RankPoints(pts, sim) ==
    IF pts = {} THEN <<>>
    ELSE LET pos(c) == CHOOSE i \in 1..Len(CorpusSeq) : CorpusSeq[i] = c
             best == CHOOSE c \in pts : \A d \in pts \ {c} :
                         sim[c] > sim[d] \/ (sim[c] = sim[d] /\ pos(c) < pos(d))
         IN  <<Hit(best, sim[best])>> \o RankPoints(pts \ {best}, sim)

\* QdrantStore.search: the top_k points by descending score
store_search(pts, sim, top_k) == Take(RankPoints(pts, sim), top_k)

----------------------------------------------------------------------------
(* retrieve_context: fan-out, merge and hybrid reranking                   *)

\* Scores inside the reranker are counted in 1/6000: a hundredth is 60
\* units, so the keyword-overlap share 0.12 * n / d is exact for every
\* denominator d up to 6.
Hundredths(n) == n * 60

\* _add_matches: append the hits whose identity was not seen before
RECURSIVE add_matches(_, _)
add_matches(gathered, hits) ==
    IF hits = <<>> THEN gathered
    ELSE LET seen == {Key(gathered[i]) : i \in 1..Len(gathered)}
         IN  add_matches(IF Key(hits[1]) \in seen THEN gathered
                         ELSE Append(gathered, hits[1]),
                         Tail(hits))

\* A descending sort that is not stable: items of equal key come out in the
\* reverse of their original order
RECURSIVE SortDescUnstable(_)
SortDescUnstable(s) ==
    IF s = <<>> THEN <<>>
    ELSE LET rest == SortDescUnstable(Tail(s))
             n == Cardinality({i \in 1..Len(rest) : rest[i][1] >= s[1][1]})
         IN  SubSeq(rest, 1, n) \o <<s[1]>> \o SubSeq(rest, n + 1, Len(rest))

\* list.sort(key=..., reverse=True) over <<key, item>> pairs: descending by
\* key, items of equal key in their original order
RECURSIVE SortDesc(_)
SortDesc(s) ==
    IF s = <<>> THEN <<>>
    ELSE LET rest == SortDesc(Tail(s))
             n == Cardinality({i \in 1..Len(rest) : rest[i][1] > s[1][1]})
         IN  SubSeq(rest, 1, n) \o <<s[1]>> \o SubSeq(rest, n + 1, Len(rest))

Items(pairs) == [i \in 1..Len(pairs) |-> pairs[i][2]]

\* The searches of the fundamental-rights fan-out: one per category and one
\* per article of the category (the articles 14..18, 19..22 with 21A, 23, 24,
\* 25..28, 29, 30 and 32).  TRUE marks a category query.
EnumerationQueries ==
    <<TRUE, FALSE, FALSE, FALSE, FALSE, FALSE,
      TRUE, FALSE, FALSE, FALSE, FALSE, FALSE,
      TRUE, FALSE, FALSE,
      TRUE, FALSE, FALSE, FALSE, FALSE,
      TRUE, FALSE, FALSE,
      TRUE, FALSE>>

\* The enumeration path: simCat scores the category queries, simArt the
\* article queries, simAll the combined catch-all query.
\* The chunks gathered by the first n searches of the fan-out: the hits of
\* the searches in order, each chunk at its first occurrence.  Every search
\* returns the same number of hits, w.
first_occurrences(all) ==
    Bind({p \in 1..Len(all) : \A r \in 1..(p - 1) : Key(all[r]) # Key(all[p])},
         LAMBDA first :
           [k \in 1..Cardinality(first) |->
              all[CHOOSE p \in first : Cardinality({r \in first : r < p}) = k - 1]])

gather_enumeration(n, pts, simCat, simArt) ==
    Bind(store_search(pts, simCat, ENUM_K), LAMBDA hc :
    Bind(store_search(pts, simArt, ENUM_K), LAMBDA ha :
    Bind(Len(hc), LAMBDA w :
    Bind([p \in 1..(n * w) |->
            IF EnumerationQueries[((p - 1) \div w) + 1] THEN hc[((p - 1) % w) + 1]
            ELSE ha[((p - 1) % w) + 1]],
         LAMBDA all : first_occurrences(all)))))

\* gathered after the fan-out and, if it is still thin, the combined query
gather_all(pts, simCat, simArt, simAll) ==
    Bind(gather_enumeration(Len(EnumerationQueries), pts, simCat, simArt), LAMBDA g1 :
         IF Len(g1) < ENUM_MIN THEN add_matches(g1, store_search(pts, simAll, ENUM_MIN))
         ELSE g1)

\* gathered.sort(key=score, reverse=True); gathered[: max(top_k, 24)]
sort_gathered(g2, top_k) ==
    Bind(SortDesc([i \in 1..Len(g2) |-> <<g2[i].score, g2[i]>>]), LAMBDA sorted :
         Take(Items(sorted), IF top_k > ENUM_CAP THEN top_k ELSE ENUM_CAP))

retrieve_enumeration(pts, top_k, simCat, simArt, simAll) ==
    Bind(gather_all(pts, simCat, simArt, simAll), LAMBDA g2 : sort_gathered(g2, top_k))

\* A merge that never replaces an entry: the first occurrence of an identity
\* stays, whatever a later list scores
RECURSIVE merge_into_keep_first(_, _)
merge_into_keep_first(merged, hits) ==
    IF hits = <<>> THEN merged
    ELSE merge_into_keep_first(
             IF \E i \in 1..Len(merged) : Key(merged[i]) = Key(hits[1]) THEN merged
             ELSE Append(merged, hits[1]),
             Tail(hits))

\* The three-way merge: one entry per identity, at the position of its first
\* occurrence, replaced by a later occurrence only if that scores higher
RECURSIVE merge_into(_, _)
merge_into(merged, hits) ==
    IF hits = <<>> THEN merged
    ELSE LET m   == hits[1]
             idx == {i \in 1..Len(merged) : Key(merged[i]) = Key(m)}
         IN  merge_into(
                 IF idx = {} THEN Append(merged, m)
                 ELSE LET i == CHOOSE j \in idx : TRUE
                      IN  IF m.score > merged[i].score THEN [merged EXCEPT ![i] = m]
                          ELSE merged,
                 Tail(hits))

merge_results(base_res, alt_res, kw_res) ==
    merge_into(merge_into(merge_into(<<>>, base_res), alt_res), kw_res)

\* re.findall(r"[a-zA-Z]{3,}", s.lower()) as a set
Words(s) ==
    LET l == Lower(s)
        starts == {i \in 1..Len(l) : IsAsciiAlpha(l[i]) /\ (i = 1 \/ ~IsAsciiAlpha(l[i - 1]))}
    IN  {w \in {SubSeq(l, i, RunEnd(l, i, IsAsciiAlpha)) : i \in starts} : Len(w) >= 3}

\* 0.12 * _keyword_overlap(a, b)
keyword_overlap_bonus(a, b) ==
    LET ta == Words(a)
        tb == Words(b)
        ca == Cardinality(ta)
        cb == Cardinality(tb)
        base == IF ca < cb THEN ca ELSE cb
    IN  IF ta = {} \/ tb = {} THEN 0
        ELSE (Hundredths(12) * Cardinality(ta \cap tb)) \div base

\* _invoked_articles
invoked_articles(q, refs_map) ==
    LET ql == Lower(q)
    IN  {ToInt(refs_map.article[i]) : i \in 1..Len(refs_map.article)}
        \cup (IF \E k \in article19_cues : Contains(ql, k) THEN {19} ELSE {})
        \cup (IF Contains(ql, Phrase.right_to_equality) \/ Contains(ql, Phrase.equality_before_law)
              THEN 14..18 ELSE {})
        \cup (IF Contains(ql, Phrase.right_to_freedom) THEN 19..22 ELSE {})
        \cup (IF Contains(ql, Phrase.right_against_exploitation) THEN {23, 24} ELSE {})
        \cup (IF Contains(ql, Phrase.freedom_of_religion) THEN 25..28 ELSE {})
        \cup (IF Contains(ql, Phrase.cultural) /\ Contains(ql, Phrase.educational) THEN {29, 30} ELSE {})
        \cup (IF Contains(ql, Phrase.constitutional_remedies) THEN {32} ELSE {})

\* _statute_links: the articles a chunk links to
statute_links(r, mapping) ==
    LET title   == Lower(r.title)
        section == Upper(r.section)
        t       == Lower(r.text)
        tu      == Upper(t)
        secHit(cfg) == \E i \in 1..Len(cfg.Linked_Sections) :
                          LET sec == Upper(cfg.Linked_Sections[i])
                          IN  \/ (section # <<>> /\ Contains(section, sec))
                              \/ (section # <<>> /\ Contains(sec, section))
                              \/ (sec # <<>> /\ Contains(tu, sec))
        kwHit(cfg)  == \E i \in 1..Len(cfg.Keywords) : Contains(t, Lower(cfg.Keywords[i]))
        mapped == {ToInt(mapping[i].key) : i \in {j \in 1..Len(mapping) :
                      ToInt(mapping[j].key) # 0 /\ (secHit(mapping[j]) \/ kwHit(mapping[j]))}}
        itAct  == Contains(title, Phrase.information_technology) \/ Contains(title, Phrase.it_act_us)
                    \/ Contains(title, Phrase.it_act)
        crpc   == Contains(title, Phrase.code_of_criminal_procedure) \/ Contains(title, Phrase.crpc)
    IN  mapped
        \cup (IF itAct /\ (section \in {Numeral.n69A, Numeral.n69} \/ Contains(t, Phrase.section_69a)
                            \/ Contains(t, Phrase.section_69))
              THEN {19} ELSE {})
        \cup (IF crpc /\ section = Numeral.n144 THEN {19} ELSE {})

\* The bonus of one chunk against the invoked articles as they stand
\* The bonus without the exact article match
chunk_bonus_without_article(q0, refs, r, target_articles, links) ==
    LET art_num == ToInt(r.article)
        dists   == {IF art_num >= t THEN art_num - t ELSE t - art_num : t \in target_articles}
        dist    == CHOOSE d \in dists : \A e \in dists : d <= e
        text_low == Lower(r.text)
    IN    (IF r.section # <<>> /\ Lower(r.section) \in Range(refs.section) THEN Hundredths(18) ELSE 0)
        + (IF r.part # <<>> /\ Lower(r.part) \in Range(refs.part) THEN Hundredths(6) ELSE 0)
        + (IF r.chapter # <<>> /\ Lower(r.chapter) \in Range(refs.chapter) THEN Hundredths(5) ELSE 0)
        + (IF art_num # 0 /\ target_articles # {}
           THEN (IF dist < 10 THEN (Hundredths(15) * (10 - dist)) \div 10 ELSE 0) ELSE 0)
        + (IF \E term \in restriction_terms : Contains(text_low, term) THEN Hundredths(10) ELSE 0)
        + (IF \E term \in procedural_terms : Contains(text_low, term) THEN Hundredths(8) ELSE 0)
        + (IF r.tags \cap {"procedure", "safeguard", "blocking", "interception"} # {}
           THEN Hundredths(10) ELSE 0)
        + keyword_overlap_bonus(q0, r.text)
        + (IF links # {} /\ target_articles # {} /\ links \cap target_articles # {}
           THEN Hundredths(12) ELSE 0)

chunk_bonus(q0, refs, r, target_articles, links) ==
    LET art_num == ToInt(r.article)
        dists   == {IF art_num >= t THEN art_num - t ELSE t - art_num : t \in target_articles}
        dist    == CHOOSE d \in dists : \A e \in dists : d <= e
        text_low == Lower(r.text)
    IN    (IF r.article # <<>> /\ Lower(r.article) \in Range(refs.article) THEN Hundredths(22) ELSE 0)
        + (IF r.section # <<>> /\ Lower(r.section) \in Range(refs.section) THEN Hundredths(18) ELSE 0)
        + (IF r.part # <<>> /\ Lower(r.part) \in Range(refs.part) THEN Hundredths(6) ELSE 0)
        + (IF r.chapter # <<>> /\ Lower(r.chapter) \in Range(refs.chapter) THEN Hundredths(5) ELSE 0)
        + (IF art_num # 0 /\ target_articles # {}
           THEN (IF dist < 10 THEN (Hundredths(15) * (10 - dist)) \div 10 ELSE 0) ELSE 0)
        + (IF \E term \in restriction_terms : Contains(text_low, term) THEN Hundredths(10) ELSE 0)
        + (IF \E term \in procedural_terms : Contains(text_low, term) THEN Hundredths(8) ELSE 0)
        + (IF r.tags \cap {"procedure", "safeguard", "blocking", "interception"} # {}
           THEN Hundredths(10) ELSE 0)
        + keyword_overlap_bonus(q0, r.text)
        + (IF links # {} /\ target_articles # {} /\ links \cap target_articles # {}
           THEN Hundredths(12) ELSE 0)

\* The reranking pass: the chunks in merge order with their final scores;
\* the links found on a chunk join the invoked articles of the chunks after it
RECURSIVE rerank_pass(_, _, _, _, _)
\* The pass with the links of a chunk added before its own bonus is decided
rerank_pass_links_first(q0, refs, results, target_articles, acc) ==
    IF results = <<>> THEN acc
    ELSE LET r     == results[1]
             links == statute_links(r, DefaultLinkMap)
             grown == IF links # {} /\ target_articles # {}
                      THEN target_articles \cup links ELSE target_articles
             final == Hundredths(r.score) + chunk_bonus(q0, refs, r, grown, links)
         IN  rerank_pass(q0, refs, Tail(results), grown, Append(acc, <<final, r>>))

rerank_pass(q0, refs, results, target_articles, acc) ==
    IF results = <<>> THEN acc
    ELSE LET r     == results[1]
             links == statute_links(r, DefaultLinkMap)
             final == Hundredths(r.score) + chunk_bonus(q0, refs, r, target_articles, links)
         IN  rerank_pass(q0, refs, Tail(results),
                         IF links # {} /\ target_articles # {}
                         THEN target_articles \cup links ELSE target_articles,
                         Append(acc, <<final, r>>))

\* target_articles as the reranking loop finds it at each chunk of results,
\* and after the last one
RECURSIVE target_articles_pass(_, _, _)
target_articles_pass(results, target_articles, acc) ==
    IF results = <<>> THEN Append(acc, target_articles)
    ELSE LET links == statute_links(results[1], DefaultLinkMap)
         IN  target_articles_pass(Tail(results),
                                  IF links # {} /\ target_articles # {}
                                  THEN target_articles \cup links ELSE target_articles,
                                  Append(acc, target_articles))

rerank_targets(q0, results) ==
    target_articles_pass(results, invoked_articles(q0, extract_refs(q0)), <<>>)

\* The list reranked before it is sorted: <<base + bonus, r>> in the order
\* of results
rerank_scored(q0, results) ==
    LET refs == extract_refs(q0)
    IN  rerank_pass(q0, refs, results, invoked_articles(q0, refs), <<>>)

\* reranked.sort(key=lambda x: x[0], reverse=True), then the first top_k
sort_reranked(scored, top_k) == Take(Items(SortDesc(scored)), top_k)

rerank(q0, results, top_k) == sort_reranked(rerank_scored(q0, results), top_k)

\* The two values of adaptive_k the other way round
adaptive_k_swapped(q0) ==
    IF detect_legal_refs(q0).has_ref THEN ADAPTIVE_K_BROAD ELSE ADAPTIVE_K_REF

adaptive_k(q0) == IF detect_legal_refs(q0).has_ref THEN ADAPTIVE_K_REF ELSE ADAPTIVE_K_BROAD

\* The non-enumeration path of retrieve_context; simE, sim0, simK score the
\* expanded, the original and the keyword query
retrieve_reranked(q0, top_k, pts, simE, sim0, simK) ==
    Bind(adaptive_k(q0), LAMBDA k :
    Bind(store_search(pts, simE, IF top_k > k THEN top_k ELSE k), LAMBDA base_res :
    Bind(store_search(pts, sim0, k), LAMBDA alt_res :
    Bind(store_search(pts, simK, k), LAMBDA kw_res :
    Bind(merge_results(base_res, alt_res, kw_res), LAMBDA merged :
    Bind(IF merged = <<>> THEN store_search(pts, sim0, top_k) ELSE merged, LAMBDA results :
         rerank(q0, results, top_k)))))))

\* The number of searches of the non-enumeration path
reranked_searches(pts) == IF pts = {} THEN 4 ELSE 3

----------------------------------------------------------------------------
(* Answer texts                                                            *)

\* A text is a record.  The words of an LLM are in body (code points); the
\* canned messages of the source are literals, kept by kind and language,
\* the fundamental-rights enumeration with its lines.
\*   mark: the list marker at the start of the line ("" for none)
\*   role: heading, category, blank or basis (the "Legal basis" line)
\*   lo..hi: the range of articles the line names; incl: the articles it
\*   names in brackets
RightsLine(mark, role, lo, hi, incl) ==
    [mark |-> mark, role |-> role, lo |-> lo, hi |-> hi, incl |-> incl]

NoText == [kind |-> "none", lang |-> <<>>, body |-> <<>>, lines |-> <<>>, transient |-> FALSE]

LLMText(body) == [NoText EXCEPT !.kind = "llm", !.body = body]

Canned(kind, lang) == [NoText EXCEPT !.kind = kind, !.lang = lang]

\* bool(text): a Python string is falsy iff it is empty; the canned messages
\* are non-empty literals
NonEmptyText(t) == t.kind # "none" /\ (t.kind = "llm" => t.body # <<>>)

\* _greeting_response
greeting_response(lang) ==
    Canned("greeting", IF lang \in LocalizedMessageLangs THEN lang ELSE EN)

\* _guidance_message: the transient wording exists in the English text only
guidance_message(lang, transient) ==
    IF lang \in LocalizedMessageLangs THEN Canned("guidance", lang)
    ELSE [Canned("guidance", EN) EXCEPT !.transient = transient]

\* _compose_fundamental_rights_answer: heading, six categories, a blank line
\* and the legal basis
compose_fundamental_rights_answer ==
    <<RightsLine("", "heading", 12, 35, {}),
      RightsLine("-", "category", 14, 18, {}),
      RightsLine("-", "category", 19, 22, {"21", "21A"}),
      RightsLine("-", "category", 23, 24, {}),
      RightsLine("-", "category", 25, 28, {}),
      RightsLine("-", "category", 29, 30, {}),
      RightsLine("-", "category", 32, 32, {}),
      RightsLine("", "blank", 0, 0, {}),
      RightsLine("", "basis", 14, 32, {"21", "21A"})>>

\* _compose_fundamental_rights_answer_lang: the localized texts have the
\* lines of the English one
compose_fundamental_rights_answer_lang(lang) ==
    [Canned("rights", IF lang \in LocalizedRightsLangs THEN lang ELSE EN)
       EXCEPT !.lines = compose_fundamental_rights_answer]

\* _compose_right_to_equality_answer: an English text whatever the query
compose_right_to_equality_answer(query) == Canned("equality", EN)

\* clean_legal_response on text without Markdown links, headings, emphasis,
\* backticks or underscores (the texts of this model): list markers become
\* the bullet sign and the ends are stripped
clean_legal_response(t) ==
    IF ~NonEmptyText(t) THEN t
    ELSE [t EXCEPT !.body = Strip(@),
                   !.lines = [i \in 1..Len(@) |->
                                 IF @[i].mark \in {"-", "*"} THEN [@[i] EXCEPT !.mark = "bullet"]
                                 ELSE @[i]]]

\* _format_plain on such text: "*" markers become "-", the ends are stripped
format_plain(t) ==
    [t EXCEPT !.body = Strip(@),
              !.lines = [i \in 1..Len(@) |->
                            IF @[i].mark = "*" THEN [@[i] EXCEPT !.mark = "-"] ELSE @[i]]]

\* _format_output with settings.enable_markdown_rendering = False
format_output(t) == format_plain(t)

----------------------------------------------------------------------------
(* LLM helpers; r is the outcome of the LLMClient call: [ok, text]          *)

LLMFail == [ok |-> FALSE, text |-> <<>>]

LLMOk(text) == [ok |-> TRUE, text |-> text]

\* _translate_to_english
translate_to_english(text, r) ==
    IF text = <<>> THEN text
    ELSE IF r.ok THEN Strip(r.text) ELSE text

\* whether _translate_from_english calls the LLM
translates_back(t, target_lang) == NonEmptyText(t) /\ target_lang # EN

\* A translation that leaves nothing when the LLM call fails
translate_from_english_or_nothing(t, target_lang, r) ==
    IF ~translates_back(t, target_lang) THEN t
    ELSE IF r.ok THEN LLMText(Strip(r.text)) ELSE NoText

\* _translate_from_english
translate_from_english(t, target_lang, r) ==
    IF ~translates_back(t, target_lang) THEN t
    ELSE IF r.ok THEN LLMText(Strip(r.text)) ELSE t

\* the second detection pass in answer(): the LLM's code replaces the
\* script-based one when it is non-empty and differs
answer_lang(fast, detected) ==
    IF detected # <<>> /\ detected # fast THEN detected ELSE fast

\* a filter whose floor is one hundredth lower
strong_filter_lenient(contexts) == SelectSeq(contexts, LAMBDA c : c.score >= MIN_SCORE - 1)

\* strong = [c for c in contexts if score >= MIN_SCORE]
strong_filter(contexts) == SelectSeq(contexts, LAMBDA c : c.score >= MIN_SCORE)

\* approved_ids of the metadata store
approved_ids_of(m) == {d \in DOMAIN m : m[d].present /\ m[d].approved}

\* the approval gating of answer(): loaded is FALSE when reading the
\* metadata store raised
approval_gating(strong_in, loaded, approved_ids) ==
    IF loaded /\ approved_ids # {}
    THEN SelectSeq(strong_in, LAMBDA c : c.doc_id \in approved_ids)
    ELSE strong_in

\* where answer() goes after gating: the two intents, then empty retrieval
\* (free mode only when not streaming), then grounded generation
route_after_gating(query, strong_in, stream_in) ==
    LET intent == detect_intent(query)
    IN  IF intent.fundamental_rights_all THEN "rights"
        ELSE IF intent.right_to_equality THEN "equality"
        ELSE IF strong_in = <<>> THEN (IF ~stream_in THEN "free" ELSE "guidance")
        ELSE "compress"

\* a routing that looks at the language before the small talk
route_after_detection_lang_first(query, lang_in) ==
    IF lang_in # EN THEN "translate"
    ELSE IF is_smalltalk(query) THEN "smalltalk"
    ELSE "retrieve"

\* where answer() goes after language detection
route_after_detection(query, lang_in) ==
    IF is_smalltalk(query) THEN "smalltalk"
    ELSE IF lang_in # EN THEN "translate"
    ELSE "retrieve"

----------------------------------------------------------------------------
(* State                                                                   *)

VARIABLES
    meta,          \* metadata store: doc_id -> entry of docs.json
    bg,            \* background ingestion task of each upload
    collExists,    \* whether the Qdrant collection exists
    points,        \* the points of the collection
    pc,            \* position of the answer() call in progress
    query,         \* answer(query, stream)
    stream,
    fast_lang,     \* _detect_lang(query)
    llm_valid,     \* the LLM's reply to the detection prompt passed the sanity filter
    lang,
    search_query,
    strong,
    gating,        \* what the approval gating read from the metadata store
    attempt,       \* loop index i of the retry loop in progress
    calls,         \* calls made by this answer() so far
    error,         \* the exception in flight: what failed
    out,           \* what answer() gave back
    back,          \* the translate-back call of the request
    resp,          \* the response of the chat endpoint that called answer()
    rc,            \* a call of retrieve_context, step by step
    cc,            \* a call of _compress_contexts, step by step
    wr,            \* a call of QdrantStore._with_retries, step by step
    ll,            \* the lru_cache of _load_legal_links and the threads calling it
    qc,            \* _client_instance and the threads calling get_qdrant_client
    sg             \* a call of LLMClient.stream_generate, step by step

vars == <<meta, bg, collExists, points, pc, query, stream, fast_lang, llm_valid, lang,
          search_query, strong, gating, attempt, calls, error, out, back, resp, rc,
          cc, wr, ll, qc, sg>>

\* the calls followed step by step on their own
unitVars == <<cc, wr, ll, qc, sg>>

appVars == <<meta, bg, collExists, points, pc, query, stream, fast_lang, llm_valid, lang,
             search_query, strong, gating, attempt, calls, error, out, back, resp, rc>>

envVars == <<meta, bg, collExists, points>>

reqVars == <<pc, query, stream, fast_lang, llm_valid, lang, search_query, strong,
             gating, attempt, calls, error, out>>

NoDoc == [present |-> FALSE, approved |-> FALSE]

NoCalls ==
    [llm_detect |-> 0, llm_translate |-> 0, llm_compress |-> 0, llm_free |-> 0,
     llm_generate |-> 0, llm_stream |-> 0, embed |-> 0, search |-> 0, meta |-> 0]

NoGating == [done |-> FALSE, loaded |-> FALSE, approved_ids |-> {}]

NoOut == [status |-> "none", text |-> NoText]

Returned(t) == [status |-> "returned", text |-> t]

Raised == [status |-> "raised", text |-> NoText]

Bump(c, f, n) == [c EXCEPT ![f] = @ + n]

\* The call of _translate_from_english: whether the LLM was asked, whether it
\* answered, and the English text handed over
NoBack == [made |-> FALSE, ok |-> FALSE, english |-> NoText]

\* A call of retrieve_context: the query and top_k, the points of the
\* collection, the text and k of each _search of the reranked path, the hit
\* lists of its searches, the merged (or gathered) list,
\* the <<base + bonus, r>> pairs of the reranker, its target_articles before
\* each chunk and at the end, and the list returned
NoRc ==
    [phase |-> "idle", path |-> "none", q0 |-> <<>>, top_k |-> 0, pts |-> {},
     asked |-> <<>>, searches |-> <<>>, merged |-> <<>>, scored |-> <<>>, targets |-> <<>>,
     ret |-> <<>>]

\* The JSON body {"answer": text} of the chat endpoints, and which endpoint
\* sent it
NoResp == [sent |-> FALSE, via |-> "none", answer |-> NoText]

Answered(via, t) == [sent |-> TRUE, via |-> via, answer |-> t]

\* "Sorry, I can't complete this right now. ..."
SafeMessage == Canned("endpoint_safe", EN)

\* "Please provide a non-empty 'query' parameter. ..."
MissingQueryMessage == Canned("missing_query", EN)

\* An endpoint without the except clause: the text of a call that raised
endpoint_text_uncaught(o) == o.text

\* try: text = answer(query, stream=False) / except Exception: the safe text
endpoint_text(o) == IF o.status = "raised" THEN SafeMessage ELSE o.text

\* The queries users send
Queries == {Q_hi, Q_bail, Q_mere, Q_list, Q_art14}

\* What the LLM may do on each kind of call
DetectOutcomes ==
    {LLMFail, LLMOk(<<>>), LLMOk(Raw_hi), LLMOk(Raw_ta), LLMOk(Raw_HIin), LLMOk(Raw_bad)}

TranslateQueryOutcomes == {LLMFail, LLMOk(Q_bail), LLMOk(Q_list)}

GenerateOutcomes == {LLMFail, LLMOk(<<>>), LLMOk(T_blank), LLMOk(T_ok_padded)}

TranslateBackOutcomes == {LLMFail, LLMOk(<<>>), LLMOk(T_translated)}

\* stream_generate: the tokens yielded, and whether it then raised
StreamOutcomes ==
    {[ok |-> FALSE, tokens |-> <<T_ok>>], [ok |-> TRUE, tokens |-> <<>>],
     [ok |-> TRUE, tokens |-> <<T_blank, T_ok>>]}

\* the numbers of consecutive failures of a Qdrant client call
Fails == 0..VS_ATTEMPTS

\* A call of _compress_contexts: the contexts passed, the snippets built,
\* the calls of the LLM and the last outcome, and what the call gave back
NoCc ==
    [phase |-> "idle", contexts |-> <<>>, snippets |-> <<>>, llm_calls |-> 0,
     llm |-> [ok |-> FALSE, text |-> <<>>], out |-> [status |-> "none", text |-> <<>>]]

\* A call of _with_retries: what the successive calls of fn will do, the loop
\* index i, the calls of fn made, last_exc, and how the call ended
NoWr ==
    [phase |-> "idle", plan |-> <<>>, i |-> 0, made |-> 0, last_exc |-> "none",
     out |-> [status |-> "none", val |-> "none"]]

\* the threads of the process: request threads of the sync chat endpoints
\* and background ingestion tasks
Threads == {"t1", "t2", "t3"}

\* _load_legal_links under lru_cache(maxsize=1): the cached map (0: none
\* yet; maps are told apart by the run of the body that built them), the
\* runs of the body, each thread's position in the wrapper, the map its run
\* of the body built, the map its call returned, and every map returned
NoLl ==
    [cache |-> 0, loads |-> 0, pc |-> [t \in Threads |-> "idle"],
     res |-> [t \in Threads |-> 0], got |-> [t \in Threads |-> 0], rets |-> {}]

\* get_qdrant_client: the global _client_instance (0: None; clients are
\* told apart by the order of their construction), the clients constructed,
\* each thread's position in the function, the client it constructed, the
\* client its call returned, and every client returned
NoQc ==
    [instance |-> 0, built |-> 0, pc |-> [t \in Threads |-> "idle"],
     made |-> [t \in Threads |-> 0], got |-> [t \in Threads |-> 0], rets |-> {}]

\* A call of LLMClient.stream_generate with the Google provider: what the
\* stream of each candidate model will do, the candidate being tried, the
\* events of its stream consumed, the tokens yielded so far (each with the
\* candidate it came from), self.model, last_err, and how the call ended
NoSg ==
    [phase |-> "idle", plan |-> <<>>, cand |-> 0, pos |-> 0, yielded |-> <<>>,
     model |-> "", last_err |-> 0]

Init ==
    /\ meta = [d \in DocIds |-> NoDoc]
    /\ bg = [d \in DocIds |-> "none"]
    /\ collExists = FALSE
    /\ points = {}
    /\ pc = "idle"
    /\ query = <<>>
    /\ stream = FALSE
    /\ fast_lang = <<>>
    /\ llm_valid = FALSE
    /\ lang = <<>>
    /\ search_query = <<>>
    /\ strong = <<>>
    /\ gating = NoGating
    /\ attempt = 0
    /\ calls = NoCalls
    /\ error = "none"
    /\ out = NoOut
    /\ back = NoBack
    /\ resp = NoResp
    /\ rc = NoRc
    /\ cc = NoCc
    /\ wr = NoWr
    /\ ll = NoLl
    /\ qc = NoQc
    /\ sg = NoSg

----------------------------------------------------------------------------
(* Admin router and background ingestion                                   *)

\* QdrantStore.ensure_collection: get_collection fails gcFails times in a
\* row (always, if there is no collection), recreate_collection rcFails times
ensure_collection(exists, pts, gcFails, rcFails) ==
    IF exists /\ with_retries(gcFails).ok
    THEN [ok |-> TRUE, exists |-> TRUE, points |-> pts]
    ELSE IF with_retries(rcFails).ok
    THEN [ok |-> TRUE, exists |-> TRUE, points |-> {}]
    ELSE [ok |-> FALSE, exists |-> exists, points |-> pts]

\* what ensure_collection can do to a store, over the failures of its calls
EnsureOutcomes(exists, pts) ==
    {ensure_collection(exists, pts, gcFails, rcFails) : gcFails \in Fails, rcFails \in Fails}

\* whether a retried client call comes back, over its failures
RetryOutcomes == {with_retries(fails).ok : fails \in Fails}

\* POST /admin/documents: a fresh doc_id, the "processing" entry, the task
upload_document(d) ==
    /\ bg[d] = "none"
    /\ meta' = [meta EXCEPT ![d] = [present |-> TRUE, approved |-> FALSE]]
    /\ bg' = [bg EXCEPT ![d] = "pending"]
    /\ UNCHANGED <<collExists, points>>
    /\ UNCHANGED reqVars
    /\ UNCHANGED <<back, resp, rc>>
    /\ UNCHANGED unitVars

\* _bg: ingest_file, then the "ready" entry; the "error" entry if it raised
bg_ingest(d) ==
    /\ bg[d] = "pending"
    /\ \E ec \in EnsureOutcomes(collExists, points), upsert_ok \in RetryOutcomes :
          LET up == ec.ok /\ upsert_ok
          IN  /\ collExists' = ec.exists
              /\ points' = IF up THEN ec.points \cup ChunksOf(d) ELSE ec.points
              /\ meta' = [meta EXCEPT ![d] =
                             [present |-> TRUE, approved |-> FALSE]]
    /\ bg' = [bg EXCEPT ![d] = "done"]
    /\ UNCHANGED reqVars
    /\ UNCHANGED <<back, resp, rc>>
    /\ UNCHANGED unitVars

\* set_document_approved
set_document_approved(m, d, approved) ==
    IF m[d].present /\ m[d].approved # approved THEN [m EXCEPT ![d].approved = approved]
    ELSE m

\* PATCH /admin/documents/{doc_id}/approve
approve_document(d) ==
    /\ meta' = set_document_approved(meta, d, TRUE)
    /\ UNCHANGED <<bg, collExists, points>>
    /\ UNCHANGED reqVars
    /\ UNCHANGED <<back, resp, rc>>
    /\ UNCHANGED unitVars

\* PATCH /admin/documents/{doc_id}/unapprove
unapprove_document(d) ==
    /\ meta' = set_document_approved(meta, d, FALSE)
    /\ UNCHANGED <<bg, collExists, points>>
    /\ UNCHANGED reqVars
    /\ UNCHANGED <<back, resp, rc>>
    /\ UNCHANGED unitVars

\* DELETE /admin/documents/{doc_id}: the points of the document are deleted
\* (a failure of the vector store is caught and reported), then the entry is
\* removed from the metadata store; the background task of the upload, if it
\* has not run yet, is left to run
delete_document(d) ==
    /\ \E delete_ok \in RetryOutcomes :
          points' = IF collExists /\ delete_ok THEN points \ ChunksOf(d) ELSE points
    /\ meta' = [meta EXCEPT ![d] = NoDoc]
    /\ UNCHANGED <<bg, collExists>>
    /\ UNCHANGED reqVars
    /\ UNCHANGED <<back, resp, rc>>
    /\ UNCHANGED unitVars

\* list_documents: the doc_ids of the entries of the metadata store
list_documents(m) == {d \in DocIds : m[d].present}

----------------------------------------------------------------------------
(* answer(query, stream)                                                   *)

\* A caller (the chat endpoints) invokes answer()
Ask(q, s) ==
    /\ pc = "idle"
    /\ query' = q
    /\ stream' = s
    /\ pc' = "detect"
    /\ UNCHANGED <<fast_lang, llm_valid, lang, search_query, strong, gating, attempt, calls,
                   error, out>>
    /\ UNCHANGED envVars
    /\ UNCHANGED <<back, resp, rc>>
    /\ UNCHANGED unitVars

\* Both detection passes
DetectLanguage ==
    /\ pc = "detect"
    /\ \E r \in DetectOutcomes :
          /\ fast_lang' = detect_lang(query)
          /\ llm_valid' = (r.ok /\ ValidLangCode(Lower(Strip(r.text))))
          /\ lang' = answer_lang(detect_lang(query), detect_lang_via_llm(r))
    /\ calls' = Bump(calls, "llm_detect", 1)
    /\ search_query' = query
    /\ pc' = route_after_detection(query, lang')
    /\ UNCHANGED <<query, stream, strong, gating, attempt, error, out>>
    /\ UNCHANGED envVars
    /\ UNCHANGED <<back, resp, rc>>
    /\ UNCHANGED unitVars

\* answer() gives back text t; its locals go out of scope
Reply(t) ==
    /\ out' = Returned(t)
    /\ pc' = "done"
    /\ search_query' = <<>>
    /\ strong' = <<>>
    /\ gating' = NoGating

\* The small-talk reply
SmalltalkReply ==
    /\ pc = "smalltalk"
    /\ Reply(format_output(clean_legal_response(greeting_response(lang))))
    /\ UNCHANGED <<query, stream, fast_lang, llm_valid, lang,
                   attempt, calls, error>>
    /\ UNCHANGED envVars
    /\ UNCHANGED <<back, resp, rc>>
    /\ UNCHANGED unitVars

\* The query is translated for retrieval when the language is not English
TranslateQuery ==
    /\ pc = "translate"
    /\ \E r \in TranslateQueryOutcomes : search_query' = translate_to_english(query, r)
    /\ calls' = Bump(calls, "llm_translate", 1)
    /\ pc' = "retrieve"
    /\ UNCHANGED <<query, stream, fast_lang, llm_valid, lang, strong, gating, attempt, error,
                   out>>
    /\ UNCHANGED envVars
    /\ UNCHANGED <<back, resp, rc>>
    /\ UNCHANGED unitVars

\* retrieve_context, first part: the embedder and ensure_collection.  Nothing
\* in answer() catches what they raise.
EnsureCollection ==
    /\ pc = "retrieve"
    /\ \E embedder_ok \in BOOLEAN, ec \in EnsureOutcomes(collExists, points) :
              IF ~embedder_ok
              THEN /\ error' = "embedder"
                   /\ pc' = "raise"
                   /\ UNCHANGED <<collExists, points>>
              ELSE /\ collExists' = ec.exists
                   /\ points' = ec.points
                   /\ error' = IF ec.ok THEN error ELSE "vector_store"
                   /\ pc' = IF ec.ok THEN "search" ELSE "raise"
    /\ calls' = Bump(calls, "embed", 1)
    /\ UNCHANGED <<query, stream, fast_lang, llm_valid, lang, search_query, strong, gating,
                   attempt, out>>
    /\ UNCHANGED <<meta, bg>>
    /\ UNCHANGED <<back, resp, rc>>
    /\ UNCHANGED unitVars

\* the scores of a query text other than q0: the same text scores the same
SimsFor(text, q0, sim0) == IF text = q0 THEN {sim0} ELSE FlatSims(DOMAIN sim0)

\* retrieve_context, second part, when every search works: the contexts the
\* store's scores can give.  In the fan-out the article queries and the
\* combined query score the points alike.
RetrievedContexts(q0, pts) ==
    IF detect_intent(q0).fundamental_rights_all
    THEN {retrieve_enumeration(pts, DEFAULT_TOP_K, simCat, simArt, simArt) :
              simCat \in SimsOver(pts), simArt \in FlatSims(pts)}
    ELSE LET e   == expand_query(q0, detect_legal_refs(q0), DefaultLinkMap)
             exq == IF e[1] = <<>> THEN q0 ELSE e[1]
             kwq == IF e[2] = <<>> THEN q0 ELSE e[2]
         IN  UNION {{retrieve_reranked(q0, DEFAULT_TOP_K, pts, simE, sim0, simK) :
                         simE \in SimsFor(exq, q0, sim0), simK \in SimsFor(kwq, q0, sim0)} :
                    sim0 \in SimsOver(pts)}

\* the searches retrieve_context makes
SearchCount(q0, pts, ctx) ==
    IF detect_intent(q0).fundamental_rights_all
    THEN Len(EnumerationQueries) + (IF Len(ctx) < ENUM_MIN THEN 1 ELSE 0)
    ELSE reranked_searches(pts)

\* retrieve_context, second part, and the score floor.  A search that fails
\* VS_ATTEMPTS times raises, and nothing in answer() catches it.
Search ==
    /\ pc = "search"
    /\ \/ /\ FALSE \in RetryOutcomes
          /\ error' = "vector_store"
          /\ pc' = "raise"
          /\ calls' = Bump(Bump(calls, "embed", 1), "search", 1)
          /\ UNCHANGED strong
       \/ /\ TRUE \in RetryOutcomes
          /\ \E ctx \in RetrievedContexts(search_query, points) :
                /\ strong' = strong_filter(ctx)
                /\ calls' = LET n == SearchCount(search_query, points, ctx)
                            IN  Bump(Bump(calls, "embed", n), "search", n)
          /\ pc' = "gate"
          /\ UNCHANGED error
    /\ UNCHANGED <<query, stream, fast_lang, llm_valid, lang, search_query, gating, attempt,
                   out>>
    /\ UNCHANGED envVars
    /\ UNCHANGED <<back, resp, rc>>
    /\ UNCHANGED unitVars

\* An exception leaves answer()
Propagate ==
    /\ pc = "raise"
    /\ out' = Raised
    /\ pc' = "done"
    /\ search_query' = <<>>
    /\ strong' = <<>>
    /\ gating' = NoGating
    /\ UNCHANGED <<query, stream, fast_lang, llm_valid, lang,
                   attempt, calls, error>>
    /\ UNCHANGED envVars
    /\ UNCHANGED <<back, resp, rc>>
    /\ UNCHANGED unitVars

\* The approval gating; reading the metadata store may raise, which is
\* caught.  approved_ids is the approved set of the store at that moment.
ApprovalGating ==
    /\ pc = "gate"
    /\ \E loaded \in BOOLEAN :
          /\ gating' = [done |-> TRUE, loaded |-> loaded, approved_ids |-> approved_ids_of(meta)]
          /\ strong' = approval_gating(strong, loaded, approved_ids_of(meta))
    /\ calls' = Bump(calls, "meta", 1)
    /\ pc' = route_after_gating(query, strong', stream)
    /\ UNCHANGED <<query, stream, fast_lang, llm_valid, lang, search_query, attempt, error,
                   out>>
    /\ UNCHANGED envVars
    /\ UNCHANGED <<back, resp, rc>>
    /\ UNCHANGED unitVars

\* The canned enumeration of the fundamental rights
FundamentalRightsReply ==
    /\ pc = "rights"
    /\ Reply(format_output(clean_legal_response(compose_fundamental_rights_answer_lang(lang))))
    /\ UNCHANGED <<query, stream, fast_lang, llm_valid, lang,
                   attempt, calls, error>>
    /\ UNCHANGED envVars
    /\ UNCHANGED <<back, resp, rc>>
    /\ UNCHANGED unitVars

\* The canned Right-to-Equality answer
RightToEqualityReply ==
    /\ pc = "equality"
    /\ Reply(format_plain(compose_right_to_equality_answer(query)))
    /\ UNCHANGED <<query, stream, fast_lang, llm_valid, lang,
                   attempt, calls, error>>
    /\ UNCHANGED envVars
    /\ UNCHANGED <<back, resp, rc>>
    /\ UNCHANGED unitVars

\* what translating t back can give, over the outcomes of the LLM call
\* What the LLM may do in _translate_from_english: nothing is asked of it for
\* an empty text or for English
BackCalls(t, target_lang) ==
    IF translates_back(t, target_lang) THEN TranslateBackOutcomes ELSE {LLMFail}

TranslatedBack(t, target_lang) ==
    {translate_from_english(t, target_lang, tr) : tr \in BackCalls(t, target_lang)}

\* final_text = _translate_from_english(formatted_en, lang); return
\* _format_output(final_text)
ReplyTranslated(formatted_en, tr) ==
    /\ Reply(format_output(translate_from_english(formatted_en, lang, tr)))
    /\ back' = [made |-> translates_back(formatted_en, lang),
                ok |-> translates_back(formatted_en, lang) /\ tr.ok,
                english |-> formatted_en]

\* a loop that makes two passes more
LastAttempt_two_more(i) == i >= RETRY_ATTEMPTS + 1

\* a loop that makes one pass more
LastAttempt_late(i) == i >= RETRY_ATTEMPTS

\* for i in range(2): the pass with index i is the last one
LastAttempt(i) == i + 1 >= RETRY_ATTEMPTS

\* a loop that is left after its first failed pass
after_failed_attempt_once(i, again, exhausted) == exhausted

\* where a retry loop goes after the pass with index i failed
after_failed_attempt(i, again, exhausted) == IF LastAttempt(i) THEN exhausted ELSE again

\* an answer() that lets the error of the non-streaming loop out
after_generation_failed_reraise(stream_in) == IF stream_in THEN "transient" ELSE "raise"

\* where answer() goes when the grounded generation has failed for good: the
\* error raised after the loop is caught and answered with the guidance
after_generation_failed(stream_in) == "transient"

\* Empty retrieval, not streaming: one pass of the free-mode loop; the text
\* is translated back
FreeModeAttempt ==
    /\ pc = "free"
    /\ \E r \in GenerateOutcomes :
          LET formatted_en == clean_legal_response(LLMText(r.text))
          IN  IF r.ok
              THEN /\ \E tr \in BackCalls(formatted_en, lang) : ReplyTranslated(formatted_en, tr)
                   /\ attempt' = 0
                   /\ calls' = Bump(Bump(calls, "llm_free", 1), "llm_translate",
                                    IF translates_back(formatted_en, lang) THEN 1 ELSE 0)
              ELSE /\ pc' = after_failed_attempt(attempt, "free", "free_english")
                   /\ attempt' = IF LastAttempt(attempt) THEN 0 ELSE attempt + 1
                   /\ calls' = Bump(calls, "llm_free", 1)
                   /\ UNCHANGED <<search_query, strong, gating, out, back>>
    /\ UNCHANGED <<query, stream, fast_lang, llm_valid, lang,
                   error>>
    /\ UNCHANGED envVars
    /\ UNCHANGED <<resp, rc>>
    /\ UNCHANGED unitVars

\* The English free-mode attempt after the loop; no translation
FreeModeEnglish ==
    /\ pc = "free_english"
    /\ \E r \in GenerateOutcomes :
          IF r.ok THEN Reply(format_output(clean_legal_response(LLMText(r.text))))
          ELSE /\ pc' = "guidance"
               /\ UNCHANGED <<search_query, strong, gating, out>>
    /\ calls' = Bump(calls, "llm_free", 1)
    /\ UNCHANGED <<query, stream, fast_lang, llm_valid, lang,
                   attempt, error>>
    /\ UNCHANGED envVars
    /\ UNCHANGED <<back, resp, rc>>
    /\ UNCHANGED unitVars

\* The guidance to the official sources for empty retrieval
GuidanceReply ==
    /\ pc = "guidance"
    /\ Reply(format_output(clean_legal_response(guidance_message(lang, FALSE))))
    /\ UNCHANGED <<query, stream, fast_lang, llm_valid, lang,
                   attempt, calls, error>>
    /\ UNCHANGED envVars
    /\ UNCHANGED <<back, resp, rc>>
    /\ UNCHANGED unitVars

\* _compress_contexts(query, strong), and build_prompt with the query in
\* English: both catch the failures of the LLM, so every outcome of the two
\* calls leads on to the generation
CompressContexts ==
    /\ pc = "compress"
    /\ calls' = Bump(Bump(calls, "llm_compress", 1), "llm_translate",
                     IF lang # EN /\ query # <<>> THEN 1 ELSE 0)
    /\ pc' = IF stream THEN "stream" ELSE "generate"
    /\ UNCHANGED <<query, stream, fast_lang, llm_valid, lang, search_query, strong, gating,
                   attempt, error, out>>
    /\ UNCHANGED envVars
    /\ UNCHANGED <<back, resp, rc>>
    /\ UNCHANGED unitVars

\* _stream: the tokens are collected; the cleaned text is translated back
StreamGenerate ==
    /\ pc = "stream"
    /\ \E s \in StreamOutcomes :
          LET final_en == clean_legal_response(LLMText(Flatten(s.tokens)))
          IN  IF s.ok
              THEN /\ \E tr \in BackCalls(final_en, lang) : ReplyTranslated(final_en, tr)
                   /\ calls' = Bump(Bump(calls, "llm_stream", 1), "llm_translate",
                                    IF translates_back(final_en, lang) THEN 1 ELSE 0)
              ELSE /\ pc' = "stream_fallback"
                   /\ calls' = Bump(calls, "llm_stream", 1)
                   /\ UNCHANGED <<search_query, strong, gating, out, back>>
    /\ UNCHANGED <<query, stream, fast_lang, llm_valid, lang,
                   attempt, error>>
    /\ UNCHANGED envVars
    /\ UNCHANGED <<resp, rc>>
    /\ UNCHANGED unitVars

\* _stream after a failed stream: one pass of the non-stream loop; the text
\* is not translated
StreamFallbackAttempt ==
    /\ pc = "stream_fallback"
    /\ \E r \in GenerateOutcomes :
          IF r.ok
          THEN /\ Reply(format_output(clean_legal_response(LLMText(r.text))))
               /\ attempt' = 0
          ELSE /\ pc' = after_failed_attempt(attempt, "stream_fallback", "stream_free")
               /\ attempt' = IF LastAttempt(attempt) THEN 0 ELSE attempt + 1
               /\ UNCHANGED <<search_query, strong, gating, out>>
    /\ calls' = Bump(calls, "llm_generate", 1)
    /\ UNCHANGED <<query, stream, fast_lang, llm_valid, lang,
                   error>>
    /\ UNCHANGED envVars
    /\ UNCHANGED <<back, resp, rc>>
    /\ UNCHANGED unitVars

\* _stream, last resort: English free mode, else the loop's error is raised
\* and caught
StreamFreeMode ==
    /\ pc = "stream_free"
    /\ \E r \in GenerateOutcomes :
          IF r.ok THEN Reply(format_output(clean_legal_response(LLMText(r.text))))
          ELSE /\ pc' = after_generation_failed(stream)
               /\ UNCHANGED <<search_query, strong, gating, out>>
    /\ calls' = Bump(calls, "llm_free", 1)
    /\ UNCHANGED <<query, stream, fast_lang, llm_valid, lang,
                   attempt, error>>
    /\ UNCHANGED envVars
    /\ UNCHANGED <<back, resp, rc>>
    /\ UNCHANGED unitVars

\* Not streaming: one pass of the grounded loop; the text is translated back
GenerateAttempt ==
    /\ pc = "generate"
    /\ \E r \in GenerateOutcomes :
          LET formatted_en == clean_legal_response(LLMText(r.text))
          IN  IF r.ok
              THEN /\ \E tr \in BackCalls(formatted_en, lang) : ReplyTranslated(formatted_en, tr)
                   /\ attempt' = 0
                   /\ calls' = Bump(Bump(calls, "llm_generate", 1), "llm_translate",
                                    IF translates_back(formatted_en, lang) THEN 1 ELSE 0)
              ELSE /\ pc' = after_failed_attempt(attempt, "generate",
                                                 after_generation_failed(stream))
                   /\ attempt' = IF LastAttempt(attempt) THEN 0 ELSE attempt + 1
                   /\ calls' = Bump(calls, "llm_generate", 1)
                   /\ UNCHANGED <<search_query, strong, gating, out, back>>
    /\ UNCHANGED <<query, stream, fast_lang, llm_valid, lang,
                   error>>
    /\ UNCHANGED envVars
    /\ UNCHANGED <<resp, rc>>
    /\ UNCHANGED unitVars

\* The guidance after the grounded generation failed
TransientGuidance ==
    /\ pc = "transient"
    /\ Reply(format_output(clean_legal_response(guidance_message(lang, TRUE))))
    /\ UNCHANGED <<query, stream, fast_lang, llm_valid, lang,
                   attempt, calls, error>>
    /\ UNCHANGED envVars
    /\ UNCHANGED <<back, resp, rc>>
    /\ UNCHANGED unitVars

\* POST /chat/ask: answer() has returned or raised, the handler responds.
\* answer() does not depend on the endpoint that called it, so the endpoint is
\* recorded when it responds
ask_chat ==
    /\ pc = "done"
    /\ ~stream
    /\ resp' = Answered("post", endpoint_text(out))
    /\ pc' = "responded"
    /\ UNCHANGED <<query, stream, fast_lang, llm_valid, lang, search_query, strong, gating,
                   attempt, calls, error, out, back>>
    /\ UNCHANGED envVars
    /\ UNCHANGED rc
    /\ UNCHANGED unitVars

\* GET /chat/ask with a query: the same try/except
ask_chat_get ==
    /\ pc = "done"
    /\ ~stream
    /\ resp' = Answered("get", endpoint_text(out))
    /\ pc' = "responded"
    /\ UNCHANGED <<query, stream, fast_lang, llm_valid, lang, search_query, strong, gating,
                   attempt, calls, error, out, back>>
    /\ UNCHANGED envVars
    /\ UNCHANGED rc
    /\ UNCHANGED unitVars

\* GET /chat/ask with neither 'query' nor 'q': answer() is not called
ask_chat_get_missing ==
    /\ pc = "idle"
    /\ resp' = Answered("get", MissingQueryMessage)
    /\ pc' = "responded"
    /\ UNCHANGED <<query, stream, fast_lang, llm_valid, lang, search_query, strong, gating,
                   attempt, calls, error, out, back>>
    /\ UNCHANGED envVars
    /\ UNCHANGED rc
    /\ UNCHANGED unitVars

\* The caller has the result (the response is sent, or the generator of a
\* streaming call is exhausted); the next call starts afresh
Return ==
    /\ \/ pc = "responded"
       \/ pc = "done" /\ stream
    /\ pc' = "idle"
    /\ query' = <<>>
    /\ stream' = FALSE
    /\ fast_lang' = <<>>
    /\ llm_valid' = FALSE
    /\ lang' = <<>>
    /\ search_query' = <<>>
    /\ strong' = <<>>
    /\ gating' = NoGating
    /\ attempt' = 0
    /\ calls' = NoCalls
    /\ error' = "none"
    /\ out' = NoOut
    /\ back' = NoBack
    /\ resp' = NoResp
    /\ UNCHANGED envVars
    /\ UNCHANGED rc
    /\ UNCHANGED unitVars

Next ==
    \/ \E d \in DocIds : upload_document(d)
    \/ \E d \in DocIds : bg_ingest(d)
    \/ \E d \in DocIds : approve_document(d)
    \/ \E d \in DocIds : unapprove_document(d)
    \/ \E d \in DocIds : delete_document(d)
    \/ \E q \in Queries, s \in BOOLEAN : Ask(q, s)
    \/ DetectLanguage
    \/ SmalltalkReply
    \/ TranslateQuery
    \/ EnsureCollection
    \/ Search
    \/ Propagate
    \/ ApprovalGating
    \/ FundamentalRightsReply
    \/ RightToEqualityReply
    \/ FreeModeAttempt
    \/ FreeModeEnglish
    \/ GuidanceReply
    \/ CompressContexts
    \/ StreamGenerate
    \/ StreamFallbackAttempt
    \/ StreamFreeMode
    \/ GenerateAttempt
    \/ TransientGuidance
    \/ ask_chat
    \/ ask_chat_get
    \/ ask_chat_get_missing
    \/ Return

Spec == Init /\ [][Next]_vars

----------------------------------------------------------------------------
(* retrieve_context on its own, step by step                               *)

\* The queries, the top_k values and the cosine scores of the calls
RcQueries == {Q_bail, Q_list, Q_art14, Q_art19, Q_sec69a}

RcTopKs == {2, DEFAULT_TOP_K}

RcScoreVals == {35, 40, 50}

RcSims(pts) == [pts -> RcScoreVals]

RcFlat(pts) == {[c \in pts |-> v] : v \in RcScoreVals}

\* The similarity functions of a second query text: the same function for
\* the same text
RcSimsFor(text, q0, sim0, sims) == IF text = q0 THEN {sim0} ELSE sims

\* retrieve_context(query, top_k) over the points pts of the collection
retrieve_context(q, k, pts) ==
    /\ rc.phase = "idle"
    /\ rc' = [NoRc EXCEPT !.phase = "called", !.q0 = q, !.top_k = k, !.pts = pts]
    /\ UNCHANGED unitVars
    /\ UNCHANGED <<meta, bg, collExists, points, pc, query, stream, fast_lang, llm_valid, lang,
                   search_query, strong, gating, attempt, calls, error, out, back, resp>>

\* The fan-out of the enumeration path: the searches per category and per
\* article and the combined query, gathered by _add_matches
enumeration_fan_out ==
    /\ rc.phase = "called"
    /\ detect_intent(rc.q0).fundamental_rights_all
    /\ \E simCat \in RcSims(rc.pts), simArt \in RcFlat(rc.pts), simAll \in RcFlat(rc.pts) :
          rc' = Bind(store_search(rc.pts, simCat, ENUM_K), LAMBDA hc :
                Bind(store_search(rc.pts, simArt, ENUM_K), LAMBDA ha :
                Bind(first_occurrences(Flatten([n \in 1..Len(EnumerationQueries) |->
                         IF EnumerationQueries[n] THEN hc ELSE ha])), LAMBDA g1 :
                Bind(IF Len(g1) < ENUM_MIN THEN <<store_search(rc.pts, simAll, ENUM_MIN)>>
                     ELSE <<>>, LAMBDA extra :
                     [rc EXCEPT
                        !.phase = "gathered",
                        !.searches = <<hc, ha>> \o extra,
                        !.merged = IF extra = <<>> THEN g1 ELSE add_matches(g1, extra[1])]))))
    /\ UNCHANGED unitVars
    /\ UNCHANGED <<meta, bg, collExists, points, pc, query, stream, fast_lang, llm_valid, lang,
                   search_query, strong, gating, attempt, calls, error, out, back, resp>>

\* The enumeration path sorts what it gathered and returns
enumeration_return ==
    /\ rc.phase = "gathered"
    /\ rc' = [rc EXCEPT !.phase = "returned", !.path = "enumeration",
                        !.ret = sort_gathered(rc.merged, rc.top_k)]
    /\ UNCHANGED unitVars
    /\ UNCHANGED <<meta, bg, collExists, points, pc, query, stream, fast_lang, llm_valid, lang,
                   search_query, strong, gating, attempt, calls, error, out, back, resp>>

\* The three searches of the other path and their merge (with the fallback
\* search when nothing was merged)
search_and_merge ==
    /\ rc.phase = "called"
    /\ ~detect_intent(rc.q0).fundamental_rights_all
    /\ \E e \in {expand_query(rc.q0, detect_legal_refs(rc.q0), DefaultLinkMap)},
          k \in {adaptive_k(rc.q0)} :
          \E sim0 \in RcSims(rc.pts) :
             \E simE \in RcSimsFor(IF e[1] = <<>> THEN rc.q0 ELSE e[1], rc.q0, sim0,
                                   RcSims(rc.pts)),
                simK \in RcSimsFor(IF e[2] = <<>> THEN rc.q0 ELSE e[2], rc.q0, sim0,
                                   RcFlat(rc.pts)) :
               rc' = Bind(<<store_search(rc.pts, simE, IF rc.top_k > k THEN rc.top_k ELSE k),
                            store_search(rc.pts, sim0, k),
                            store_search(rc.pts, simK, k)>>, LAMBDA found :
                     Bind(merge_results(found[1], found[2], found[3]), LAMBDA merged :
                          [rc EXCEPT
                             !.phase = "merged",
                             !.asked =
                                <<[q |-> IF e[1] = <<>> THEN rc.q0 ELSE e[1],
                                   k |-> IF rc.top_k > k THEN rc.top_k ELSE k],
                                  [q |-> rc.q0, k |-> k],
                                  [q |-> IF e[2] = <<>> THEN rc.q0 ELSE e[2], k |-> k]>>
                                \o (IF merged = <<>> THEN <<[q |-> rc.q0, k |-> rc.top_k]>>
                                    ELSE <<>>),
                             !.searches = found,
                             !.merged = IF merged = <<>>
                                        THEN store_search(rc.pts, sim0, rc.top_k)
                                        ELSE merged]))
    /\ UNCHANGED unitVars
    /\ UNCHANGED <<meta, bg, collExists, points, pc, query, stream, fast_lang, llm_valid, lang,
                   search_query, strong, gating, attempt, calls, error, out, back, resp>>

\* The hybrid reranking of the merged results, and the return
rerank_return ==
    /\ rc.phase = "merged"
    /\ rc' = Bind(rerank_scored(rc.q0, rc.merged), LAMBDA scored :
                  [rc EXCEPT !.phase = "returned", !.path = "reranked",
                             !.scored = scored,
                             !.targets = rerank_targets(rc.q0, rc.merged),
                             !.ret = sort_reranked(scored, rc.top_k)])
    /\ UNCHANGED unitVars
    /\ UNCHANGED <<meta, bg, collExists, points, pc, query, stream, fast_lang, llm_valid, lang,
                   search_query, strong, gating, attempt, calls, error, out, back, resp>>

\* The caller has the list
retrieve_done ==
    /\ rc.phase = "returned"
    /\ rc' = NoRc
    /\ UNCHANGED unitVars
    /\ UNCHANGED <<meta, bg, collExists, points, pc, query, stream, fast_lang, llm_valid, lang,
                   search_query, strong, gating, attempt, calls, error, out, back, resp>>

RetrievalNext ==
    \/ \E q \in RcQueries, k \in RcTopKs, pts \in SUBSET Corpus : retrieve_context(q, k, pts)
    \/ enumeration_fan_out
    \/ enumeration_return
    \/ search_and_merge
    \/ rerank_return
    \/ retrieve_done

RetrievalSpec == Init /\ [][RetrievalNext]_vars

----------------------------------------------------------------------------
(* _compress_contexts, one call at a time                                  *)

MAX_CHUNKS == 8

SNIPPET_CHARS == 800

FALLBACK_SNIPPETS == 3

\* text.replace("\n", " ")
ReplaceNewlines(s) == [i \in 1..Len(s) |-> IF s[i] = 10 THEN 32 ELSE s[i]]

NotEmpty(s) == s # <<>>

\* The snippets of the first max_chunks contexts: the text stripped, its
\* newlines replaced, empty ones skipped, each cut to 800 characters
compress_snippets(contexts, max_chunks) ==
    LET first == Take(contexts, max_chunks)
        texts == [i \in 1..Len(first) |-> ReplaceNewlines(Strip(first[i].text))]
        kept  == SelectSeq(texts, NotEmpty)
    IN  [i \in 1..Len(kept) |-> Take(kept[i], SNIPPET_CHARS)]

\* "\n\n".join(snippets[:3])
compress_fallback(snippets) == Join(Take(snippets, FALLBACK_SNIPPETS), <<10, 10>>)

\* The summarization with its failure left to the caller
compress_summary_uncaught(snippets, r) ==
    IF r.ok
    THEN [status |-> "returned",
          text |-> IF r.text # <<>> THEN r.text ELSE compress_fallback(snippets)]
    ELSE [status |-> "raised", text |-> <<>>]

\* try: return summary or fallback; except Exception: return fallback
compress_summary(snippets, r) ==
    IF r.ok
    THEN [status |-> "returned",
          text |-> IF r.text # <<>> THEN r.text ELSE compress_fallback(snippets)]
    ELSE [status |-> "returned", text |-> compress_fallback(snippets)]

T_summary == <<98, 97, 105, 108>>

Text_lines == <<32, 97, 10, 98, 32>>

Text_long == [i \in 1..(SNIPPET_CHARS + 5) |-> IF i % 7 = 0 THEN 10 ELSE 97 + (i % 5)]

\* what llm.generate gives the compressor: a failure (of the constructor or
\* of the call), an empty summary, a summary
CcOutcomes == {LLMFail, LLMOk(<<>>), LLMOk(T_summary)}

\* The texts of the chunks: a missing text, the text of a chunk, one with
\* lines, one longer than a snippet
CcTexts == {<<>>, Text_A1, Text_lines, Text_long}

CcChunk(text) == [text |-> text]

CcSeqs(n) == UNION {[1..m -> {CcChunk(x) : x \in CcTexts}] : m \in 0..n}

\* Lists of contexts around the max_chunks boundary: a head, a run of equal
\* chunks, a tail
CcContexts ==
    {h \o [i \in 1..n |-> CcChunk(f)] \o tl :
        h \in CcSeqs(1), f \in {<<>>, Text_A1}, n \in {0, 2, MAX_CHUNKS - 1, MAX_CHUNKS},
        tl \in CcSeqs(2)}

\* _compress_contexts up to the LLM call: no LLM call without snippets
compress_contexts(contexts) ==
    /\ cc.phase = "idle"
    /\ \E e \in {compress_snippets(contexts, MAX_CHUNKS)} :
          cc' = [NoCc EXCEPT !.phase = IF e = <<>> THEN "returned" ELSE "summarize",
                             !.contexts = contexts,
                             !.snippets = e,
                             !.out = IF e = <<>> THEN [status |-> "returned", text |-> <<>>]
                                     ELSE NoCc.out]
    /\ UNCHANGED <<appVars, wr, ll, qc, sg>>

\* LLMClient().generate([system, user]) inside the try
compress_summarize ==
    /\ cc.phase = "summarize"
    /\ \E r \in CcOutcomes :
          cc' = [cc EXCEPT !.phase = "returned",
                           !.llm_calls = 1,
                           !.llm = r,
                           !.out = compress_summary(cc.snippets, r)]
    /\ UNCHANGED <<appVars, wr, ll, qc, sg>>

compress_done ==
    /\ cc.phase = "returned"
    /\ cc' = NoCc
    /\ UNCHANGED <<appVars, wr, ll, qc, sg>>

CompressNext ==
    \/ \E contexts \in CcContexts : compress_contexts(contexts)
    \/ compress_summarize
    \/ compress_done

CompressSpec == Init /\ [][CompressNext]_vars

----------------------------------------------------------------------------
(* QdrantStore._with_retries, one call at a time                           *)

\* what a call of fn does: it returns a value or raises an exception
FnOutcomes ==
    {[ok |-> TRUE, val |-> v] : v \in {"r1", "r2"}}
        \cup {[ok |-> FALSE, val |-> e] : e \in {"e1", "e2", "e3"}}

\* what the successive calls of fn would do
FnPlans == [1..VS_ATTEMPTS -> FnOutcomes]

\* The except branch with the last failure swallowed
after_fn_failed_no_raise(i) == "sleep"

\* except Exception: sleep and go round again, or re-raise on the last round
after_fn_failed(i) == IF i < VS_ATTEMPTS - 1 THEN "sleep" ELSE "raise"

with_retries_call(plan) ==
    /\ wr.phase = "idle"
    /\ wr' = [NoWr EXCEPT !.phase = "loop", !.plan = plan]
    /\ UNCHANGED <<appVars, cc, ll, qc, sg>>

\* one round of `for i in range(attempts)`: return fn(...), or the except
\* branch; a loop that runs out returns None
with_retries_round ==
    /\ wr.phase = "loop"
    /\ LET o == wr.plan[wr.i + 1]
       IN  wr' = IF o.ok
                 THEN [wr EXCEPT !.phase = "returned", !.made = wr.made + 1,
                                 !.out = [status |-> "returned", val |-> o.val]]
                 ELSE IF after_fn_failed(wr.i) = "raise"
                 THEN [wr EXCEPT !.phase = "raised", !.made = wr.made + 1,
                                 !.last_exc = o.val,
                                 !.out = [status |-> "raised", val |-> o.val]]
                 ELSE IF wr.i + 1 < VS_ATTEMPTS
                 THEN [wr EXCEPT !.i = wr.i + 1, !.made = wr.made + 1, !.last_exc = o.val]
                 ELSE [wr EXCEPT !.phase = "returned", !.made = wr.made + 1,
                                 !.last_exc = o.val,
                                 !.out = [status |-> "returned", val |-> "None"]]
    /\ UNCHANGED <<appVars, cc, ll, qc, sg>>

with_retries_done ==
    /\ wr.phase \in {"returned", "raised"}
    /\ wr' = NoWr
    /\ UNCHANGED <<appVars, cc, ll, qc, sg>>

RetryNext ==
    \/ \E plan \in FnPlans : with_retries_call(plan)
    \/ with_retries_round
    \/ with_retries_done

RetrySpec == Init /\ [][RetryNext]_vars

----------------------------------------------------------------------------
(* LLMClient.stream_generate, Google provider, one call at a time          *)

\* _google_candidates(): the four ids, normalised and deduplicated
google_candidates ==
    <<"models/gemini-2.0-flash", "gemini-2.0-flash",
      "models/gemini-2.0-flash-exp", "gemini-2.0-flash-exp">>

\* What the stream of one candidate does: the texts of its events (an event
\* may carry no text), and whether it then ends or raises
CandidateStreams ==
    {[events |-> e, fails |-> f] :
        e \in {<<>>, <<T_ok>>, <<<<>>, T_ok>>, <<T_ok, T_blank>>}, f \in BOOLEAN}

StreamPlans == [1..Len(google_candidates) -> CandidateStreams]

stream_generate(plan) ==
    /\ sg.phase = "idle"
    /\ sg' = [NoSg EXCEPT !.phase = "candidate", !.plan = plan, !.cand = 1]
    /\ UNCHANGED <<appVars, cc, wr, ll, qc>>

\* for ev in model.generate_content(..., stream=True):
\*     if getattr(ev, "text", None): yield ev.text
candidate_event ==
    /\ sg.phase = "candidate"
    /\ sg.pos < Len(sg.plan[sg.cand].events)
    /\ LET ev == sg.plan[sg.cand].events[sg.pos + 1]
       IN  sg' = [sg EXCEPT !.pos = sg.pos + 1,
                           !.yielded = IF ev # <<>>
                                       THEN Append(sg.yielded, [cand |-> sg.cand, text |-> ev])
                                       ELSE sg.yielded]
    /\ UNCHANGED <<appVars, cc, wr, ll, qc>>

\* the stream of the candidate is over: it ended (the model is cached and
\* the generator returns), or it raised (last_err = e; continue with the
\* next candidate, or raise last_err after the last one)
candidate_end ==
    /\ sg.phase = "candidate"
    /\ sg.pos = Len(sg.plan[sg.cand].events)
    /\ sg' = IF ~sg.plan[sg.cand].fails
             THEN [sg EXCEPT !.phase = "returned", !.model = google_candidates[sg.cand]]
             ELSE IF sg.cand < Len(google_candidates)
             THEN [sg EXCEPT !.cand = sg.cand + 1, !.pos = 0, !.last_err = sg.cand]
             ELSE [sg EXCEPT !.phase = "raised", !.last_err = sg.cand]
    /\ UNCHANGED <<appVars, cc, wr, ll, qc>>

stream_generate_done ==
    /\ sg.phase \in {"returned", "raised"}
    /\ sg' = NoSg
    /\ UNCHANGED <<appVars, cc, wr, ll, qc>>

StreamNext ==
    \/ \E plan \in StreamPlans : stream_generate(plan)
    \/ candidate_event
    \/ candidate_end
    \/ stream_generate_done

StreamSpec == Init /\ [][StreamNext]_vars

----------------------------------------------------------------------------
(* _load_legal_links behind functools.lru_cache, called from several       *)
(* threads. The wrapper looks the key up, calls the function on a miss     *)
(* without holding a lock, and then stores the result unless the key was   *)
(* added meanwhile; each caller returns the result of its own call.        *)

\* _load_legal_links() is called: a hit returns the cached map
load_legal_links_call(t) ==
    /\ ll.pc[t] = "idle"
    /\ ll' = IF ll.cache # 0
             THEN [ll EXCEPT !.pc[t] = "returned", !.got[t] = ll.cache,
                             !.rets = ll.rets \cup {ll.cache}]
             ELSE [ll EXCEPT !.pc[t] = "body"]
    /\ UNCHANGED <<appVars, cc, wr, qc, sg>>

\* the body of _load_legal_links: a new dict, from the file or the default
load_legal_links_body(t) ==
    /\ ll.pc[t] = "body"
    /\ ll' = [ll EXCEPT !.pc[t] = "store", !.loads = ll.loads + 1, !.res[t] = ll.loads + 1]
    /\ UNCHANGED <<appVars, cc, wr, qc, sg>>

\* back in the wrapper: the result is cached unless another call cached
\* one meanwhile, and the caller gets the result of its own call
load_legal_links_store(t) ==
    /\ ll.pc[t] = "store"
    /\ ll' = [ll EXCEPT !.pc[t] = "returned",
                        !.cache = IF ll.cache = 0 THEN ll.res[t] ELSE ll.cache,
                        !.got[t] = ll.res[t],
                        !.rets = ll.rets \cup {ll.res[t]}]
    /\ UNCHANGED <<appVars, cc, wr, qc, sg>>

\* the caller (query expansion, _statute_links of a chunk) is done with it
load_legal_links_done(t) ==
    /\ ll.pc[t] = "returned"
    /\ ll' = [ll EXCEPT !.pc[t] = "idle", !.res[t] = 0, !.got[t] = 0]
    /\ UNCHANGED <<appVars, cc, wr, qc, sg>>

LinksNext ==
    \E t \in Threads :
        \/ load_legal_links_call(t)
        \/ load_legal_links_body(t)
        \/ load_legal_links_store(t)
        \/ load_legal_links_done(t)

LinksSpec == Init /\ [][LinksNext]_vars

----------------------------------------------------------------------------
(* get_qdrant_client called from several threads                           *)

\* if _client_instance is not None: return _client_instance
get_qdrant_client(t) ==
    /\ qc.pc[t] = "idle"
    /\ qc' = IF qc.instance # 0
             THEN [qc EXCEPT !.pc[t] = "returned", !.got[t] = qc.instance,
                             !.rets = qc.rets \cup {qc.instance}]
             ELSE [qc EXCEPT !.pc[t] = "construct"]
    /\ UNCHANGED <<appVars, cc, wr, ll, sg>>

\* QdrantClient(url=...) or QdrantClient(path=...)
construct_client(t) ==
    /\ qc.pc[t] = "construct"
    /\ qc' = [qc EXCEPT !.pc[t] = "assign", !.built = qc.built + 1, !.made[t] = qc.built + 1]
    /\ UNCHANGED <<appVars, cc, wr, ll, sg>>

\* _client_instance = <the client constructed>
assign_client(t) ==
    /\ qc.pc[t] = "assign"
    /\ qc' = [qc EXCEPT !.pc[t] = "return", !.instance = qc.made[t]]
    /\ UNCHANGED <<appVars, cc, wr, ll, sg>>

\* return _client_instance: the global as it is now
return_client(t) ==
    /\ qc.pc[t] = "return"
    /\ qc' = [qc EXCEPT !.pc[t] = "returned", !.got[t] = qc.instance,
                        !.rets = qc.rets \cup {qc.instance}]
    /\ UNCHANGED <<appVars, cc, wr, ll, sg>>

\* the QdrantStore built on the client is dropped with its request
client_done(t) ==
    /\ qc.pc[t] = "returned"
    /\ qc' = [qc EXCEPT !.pc[t] = "idle", !.made[t] = 0, !.got[t] = 0]
    /\ UNCHANGED <<appVars, cc, wr, ll, sg>>

ClientNext ==
    \E t \in Threads :
        \/ get_qdrant_client(t)
        \/ construct_client(t)
        \/ assign_client(t)
        \/ return_client(t)
        \/ client_done(t)

ClientSpec == Init /\ [][ClientNext]_vars

----------------------------------------------------------------------------
(* Properties of answer()                                                  *)

\* the LLM calls that ask for an answer
generation_calls == calls.llm_free + calls.llm_generate + calls.llm_stream

\* the category lines of an enumeration text
category_lines(t) == SelectSeq(t.lines, LAMBDA l : l.role = "category")

\* C1: when the embedder and the vector store work, answer() ends by giving
\* back text and no exception leaves it, whatever the LLM calls do: an
\* exception is in flight only after the embedder or the store has failed,
\* and a call that ends without such a failure has returned text.
C1_ReturnsWhenStoresWork ==
    /\ (pc = "raise" => error \in {"embedder", "vector_store"})
    /\ ((pc = "done" /\ error = "none") => out.status = "returned")

\* a streaming call whose stream, both grounded retries and the free-mode
\* attempt failed, ended with the guidance
C1_Witness ==
    /\ pc = "done" /\ error = "none" /\ stream
    /\ calls.llm_stream = 1 /\ calls.llm_generate = RETRY_ATTEMPTS /\ calls.llm_free = 1
    /\ out.status = "returned" /\ out.text.kind = "guidance"

\* C2: a failure of the vector store during answer() is caught and treated as
\* an empty retrieval: the call still ends by returning text.
C2_StoreFailureReturnsText ==
    (pc = "done" /\ error = "vector_store") => out.status = "returned"

\* C3: for a non-empty query the text answer() returns is never empty,
\* whatever the LLM calls give.
C3_ReturnedTextNonEmpty ==
    (pc = "done" /\ out.status = "returned" /\ query # <<>>) => NonEmptyText(out.text)

\* C4: with an empty filtered set and no shortcut, the guidance is given only
\* after a free-mode attempt was made, streaming or not.
C4_FreeModeBeforeGuidance ==
    pc = "guidance" => calls.llm_free >= 1

\* C5 as stated: when the grounded generation has failed on all attempts, a
\* free-mode attempt is made before the guidance, streaming or not.
C5_FreeModeBeforeTransientGuidance ==
    pc = "transient" => calls.llm_free >= 1

\* C5: when the grounded generation has failed on all attempts, answer()
\* gives the guidance and raises nothing; it has then made RETRY_ATTEMPTS
\* non-streaming grounded attempts, followed by one free-mode attempt when
\* streaming and by none when not streaming.
C5_GroundedFailureLadder ==
    /\ pc = "transient" =>
          /\ calls.llm_generate = RETRY_ATTEMPTS
          /\ calls.llm_stream = (IF stream THEN 1 ELSE 0)
          /\ calls.llm_free = (IF stream THEN 1 ELSE 0)
          /\ error = "none"
    /\ ((pc = "done" /\ calls.llm_compress > 0) => out.status = "returned")

\* the non-streaming grounded loop is exhausted
C5_Witness ==
    pc = "transient" /\ ~stream /\ calls.llm_generate = RETRY_ATTEMPTS /\ strong # <<>>

\* C6: when the LLM detection pass fails or gives an invalid code, the
\* language of answer() is the script-based one.
C6_LangStaysFast ==
    (pc \notin {"idle", "detect"} /\ ~llm_valid) => lang = fast_lang

\* C7: a small-talk query is answered with the greeting of the detected
\* language (the English one when there is no localized greeting), the
\* retrieval is never entered and neither the embedder nor the vector store
\* is called, streaming or not.
C7_SmalltalkGreeting ==
    is_smalltalk(query) =>
        /\ pc \in {"detect", "smalltalk", "done", "responded"}
        /\ calls.embed = 0 /\ calls.search = 0
        /\ pc \in {"done", "responded"} =>
              /\ out.status = "returned"
              /\ out.text.kind = "greeting"
              /\ out.text.lang = (IF lang \in LocalizedMessageLangs THEN lang ELSE EN)

\* "hi", streaming, detected as Hindi by the LLM: the Hindi greeting
C7_Witness ==
    /\ pc = "done" /\ query = Q_hi /\ stream /\ lang = HI
    /\ out.text.kind = "greeting" /\ out.text.lang = HI

\* C8: a query with the enumerate-all-fundamental-rights intent is answered
\* with the canned enumeration of the detected language (English when not
\* localized), six category lines, and no answer generation, whatever the
\* retrieval did.
C8_RightsEnumeration ==
    (pc = "done" /\ detect_intent(query).fundamental_rights_all) =>
        /\ out.status = "returned"
        /\ out.text.kind = "rights"
        /\ out.text.lang = (IF lang \in LocalizedRightsLangs THEN lang ELSE EN)
        /\ Len(category_lines(out.text)) = 6
        /\ generation_calls = 0

\* C9: when the approved set of the metadata store is not empty, every chunk
\* that reaches the compression is of an approved document; when it is
\* empty, the chunks are those that passed the score floor.
C9_ApprovedChunksOnly ==
    (pc = "compress" /\ gating.approved_ids # {}) =>
        \A i \in 1..Len(strong) : strong[i].doc_id \in gating.approved_ids

\* C10: every chunk handed to the compression and the prompt scores at least
\* MIN_SCORE; the filtered list never holds a chunk below the floor.
C10_ScoreFloor ==
    /\ \A i \in 1..Len(strong) : strong[i].score >= MIN_SCORE
    /\ pc = "compress" => strong # <<>>

\* the compression is reached with a chunk exactly at the floor while a
\* chunk of the collection was dropped by the floor alone
C10_Witness ==
    /\ pc = "compress" /\ gating.approved_ids = {}
    /\ \E i \in 1..Len(strong) : strong[i].score = MIN_SCORE
    /\ Len(strong) < Cardinality(points)

----------------------------------------------------------------------------
(* Properties of retrieve_context                                          *)

\* Every hit of the searches of the call, in the order of the searches
all_hits == Flatten(rc.searches)

\* The best score among the occurrences of the identity k in the searches
best_score(k) ==
    CHOOSE s \in {all_hits[p].score : p \in {r \in 1..Len(all_hits) : Key(all_hits[r]) = k}} :
        \A p \in 1..Len(all_hits) : Key(all_hits[p]) = k => all_hits[p].score <= s

\* C11: after the three-way merge of the expanded-query, original-query and
\* keyword-query result lists, the merged results hold every identity
\* (doc_id, chunk_id) of the three lists exactly once, and the entry of an
\* identity carries the maximum score among its occurrences in the lists.
C11_MergeKeepsMaxScore ==
    rc.phase = "merged" =>
        /\ {Key(rc.merged[i]) : i \in 1..Len(rc.merged)}
               = {Key(all_hits[p]) : p \in 1..Len(all_hits)}
        /\ \A i, j \in 1..Len(rc.merged) : i # j => Key(rc.merged[i]) # Key(rc.merged[j])
        /\ \A i \in 1..Len(rc.merged) :
               /\ rc.merged[i].score = best_score(Key(rc.merged[i]))
               /\ \E p \in 1..Len(all_hits) : all_hits[p] = rc.merged[i]

\* A merge where a chunk scored lower by the first list than by a later one
\* carries the later, higher score
C11_Witness ==
    /\ rc.phase = "merged"
    /\ Len(rc.searches) = 3
    /\ \E i \in 1..Len(rc.merged), a \in 1..Len(rc.searches[1]), b \in 1..Len(rc.searches[2]) :
          /\ Key(rc.searches[1][a]) = Key(rc.merged[i])
          /\ Key(rc.searches[2][b]) = Key(rc.merged[i])
          /\ rc.searches[1][a].score < rc.searches[2][b].score
          /\ rc.merged[i].score = rc.searches[2][b].score
          /\ rc.merged[i].score > rc.searches[3][1].score

\* C12: the list returned by retrieve_context, on the enumeration path and
\* on the reranked path, has pairwise distinct identities (doc_id, chunk_id)
\* and the score fields of its chunks never increase along the list.
C12_RankedResult ==
    rc.phase = "returned" =>
        /\ \A i, j \in 1..Len(rc.ret) : i # j => Key(rc.ret[i]) # Key(rc.ret[j])
        /\ \A i \in 1..(Len(rc.ret) - 1) : rc.ret[i].score >= rc.ret[i + 1].score

\* The place of the i-th reranked pair in the order by descending finalScore
\* that keeps pairs of equal finalScore in merge order
final_rank(i) ==
    1 + Cardinality({j \in 1..Len(rc.scored) : rc.scored[j][1] > rc.scored[i][1]})
      + Cardinality({j \in 1..(i - 1) : rc.scored[j][1] = rc.scored[i][1]})

\* C13: on the reranked path the returned chunks are in the order of
\* non-increasing finalScore = baseScore + bonus, chunks of equal finalScore
\* in their merge order, and the list returned is the first topK chunks of
\* that order.
C13_RerankedOrder ==
    (rc.phase = "returned" /\ rc.path = "reranked") =>
        /\ Len(rc.scored) = Len(rc.merged)
        /\ \A i \in 1..Len(rc.scored) :
               /\ rc.scored[i][2] = rc.merged[i]
               /\ rc.scored[i][1] >= Hundredths(rc.merged[i].score)
        /\ Len(rc.ret) = (IF rc.top_k < Len(rc.scored) THEN rc.top_k ELSE Len(rc.scored))
        /\ \A n \in 1..Len(rc.ret) :
               \E i \in 1..Len(rc.scored) : final_rank(i) = n /\ rc.ret[n] = rc.scored[i][2]

\* A reranked list cut to topK where the merge order was changed and two
\* chunks of equal finalScore are returned in their merge order
C13_Witness ==
    /\ rc.phase = "returned"
    /\ rc.path = "reranked"
    /\ Len(rc.ret) = 2
    /\ Len(rc.scored) = 3
    /\ rc.scored[1][2] # rc.ret[1]
    /\ \E i, j \in 1..Len(rc.scored) :
          /\ i < j
          /\ rc.scored[i][1] = rc.scored[j][1]
          /\ rc.ret[1] = rc.scored[i][2]
          /\ rc.ret[2] = rc.scored[j][2]

\* The hits of the per-category and the per-article searches of the fan-out
fan_out_hits == rc.searches[1] \o rc.searches[2]

\* C20: in the enumeration fan-out, an identity (doc_id, chunk_id) returned
\* by more than one of the per-category / per-article searches has exactly
\* one entry in the gathered result, and that entry carries the highest
\* score among its occurrences.
C20_FanOutKeepsBestScore ==
    rc.phase = "gathered" =>
        \A p \in 1..Len(fan_out_hits) :
            LET k == Key(fan_out_hits[p])
                entries == {i \in 1..Len(rc.merged) : Key(rc.merged[i]) = k}
            IN  /\ Cardinality(entries) = 1
                /\ \A i \in entries, r \in 1..Len(fan_out_hits) :
                       Key(fan_out_hits[r]) = k => rc.merged[i].score >= fan_out_hits[r].score

\* An article or a section citation was detected in the query
citation_detected(q) ==
    detect_legal_refs(q).articles # <<>> \/ detect_legal_refs(q).sections # <<>>

\* C21: for a non-enumeration query retrieve_context makes three searches:
\* the expanded query at max(topK, adaptiveK), the original and the keyword
\* query at adaptiveK, adaptiveK being 5 when an article or section citation
\* was detected and 10 otherwise; a fourth search, of the original query at
\* topK, is made exactly when the merge of the three is empty.
C21_ThreeSearches ==
    rc.phase = "merged" =>
        LET aK == IF citation_detected(rc.q0) THEN 5 ELSE 10
        IN  /\ rc.q0 \in {Q_art14, Q_art19, Q_sec69a} => aK = 5
            /\ rc.q0 = Q_bail => aK = 10
            /\ Len(rc.asked) \in {3, 4}
            /\ Len(rc.searches) = 3
            /\ rc.asked[1].k = (IF rc.top_k > aK THEN rc.top_k ELSE aK)
            /\ rc.asked[2] = [q |-> rc.q0, k |-> aK]
            /\ rc.asked[3].k = aK
            /\ \A n \in 1..3 : Len(rc.searches[n]) <= rc.asked[n].k
            /\ Len(rc.asked) = 4 <=>
                   merge_results(rc.searches[1], rc.searches[2], rc.searches[3]) = <<>>
            /\ Len(rc.asked) = 4 => rc.asked[4] = [q |-> rc.q0, k |-> rc.top_k]

\* "section 69a" with top_k 10: the expanded query is searched at 10, the
\* other two at 5, and the three searches found something
C21_Witness ==
    /\ rc.phase = "merged"
    /\ rc.q0 = Q_sec69a
    /\ rc.top_k = DEFAULT_TOP_K
    /\ Len(rc.asked) = 3
    /\ rc.asked[1].k = DEFAULT_TOP_K
    /\ rc.asked[1].q # rc.q0
    /\ rc.asked[2].k = ADAPTIVE_K_REF
    /\ rc.merged # <<>>

\* On an empty collection the fourth search is made
C21_WitnessFourth ==
    rc.phase = "merged" /\ rc.q0 = Q_bail /\ Len(rc.asked) = 4

\* The bonus of the i-th merged chunk when the invoked articles are s
bonus_against(i, s) ==
    chunk_bonus(rc.q0, extract_refs(rc.q0), rc.merged[i], s,
                statute_links(rc.merged[i], DefaultLinkMap))

\* C22: during one reranking pass the invoked-articles set only grows; the
\* bonus of a chunk (its link bonus and its proximity) is decided against
\* the set as it stands before the chunk's own links are added; and the
\* links found on a chunk are added to the set, which the chunks after it
\* in merge order then consult.
C22_InvokedArticlesGrow ==
    (rc.phase = "returned" /\ rc.path = "reranked") =>
        /\ Len(rc.targets) = Len(rc.merged) + 1
        /\ \A i \in 1..Len(rc.merged) :
               /\ rc.targets[i] \subseteq rc.targets[i + 1]
               /\ rc.scored[i][1] = Hundredths(rc.merged[i].score)
                                      + bonus_against(i, rc.targets[i])
               /\ rc.targets[i + 1]
                      = rc.targets[i] \cup statute_links(rc.merged[i], DefaultLinkMap)

\* C22, as the pass does it: the set only grows, the bonus of a chunk is
\* decided against the set before the chunk's own links are added, and the
\* links of a chunk are added, for the chunks after it, only when the set is
\* not empty at that chunk; a set that starts empty stays empty.
C22_InvokedArticlesGrowWhenNotEmpty ==
    (rc.phase = "returned" /\ rc.path = "reranked") =>
        /\ Len(rc.targets) = Len(rc.merged) + 1
        /\ \A i \in 1..Len(rc.merged) :
               /\ rc.targets[i] \subseteq rc.targets[i + 1]
               /\ rc.scored[i][1] = Hundredths(rc.merged[i].score)
                                      + bonus_against(i, rc.targets[i])
               /\ rc.targets[i + 1]
                      = (IF rc.targets[i] = {} THEN {}
                         ELSE rc.targets[i] \cup statute_links(rc.merged[i], DefaultLinkMap))

\* "article 14": the links of a chunk joined the set and changed the bonus
\* of a chunk after it
C22_Witness ==
    /\ rc.phase = "returned"
    /\ rc.path = "reranked"
    /\ \E i \in 2..Len(rc.merged) :
          /\ rc.targets[i] # rc.targets[1]
          /\ bonus_against(i, rc.targets[i]) # bonus_against(i, rc.targets[1])

\* The chunk r carries the article number of an 'article N' of the query
article_match(q, r) ==
    /\ r.article # <<>>
    /\ \E n \in 1..Len(extract_refs(q).article) : extract_refs(q).article[n] = Lower(r.article)

\* The place of the chunk r in the list returned, 0 if it is not returned
place(r) ==
    IF \E n \in 1..Len(rc.ret) : rc.ret[n] = r
    THEN CHOOSE n \in 1..Len(rc.ret) : rc.ret[n] = r
    ELSE 0

\* C15: for a query in which 'article N' occurs, a merged chunk whose
\* metadata article is N has a finalScore of at least its base score + 0.22,
\* and every chunk without that match whose finalScore is lower comes after
\* it: if that chunk is returned, the matching chunk is returned before it.
C15_ArticleMatchBonus ==
    (rc.phase = "returned" /\ rc.path = "reranked") =>
        \A i \in 1..Len(rc.scored) :
            article_match(rc.q0, rc.scored[i][2]) =>
                /\ rc.scored[i][1] >= Hundredths(rc.scored[i][2].score + 22)
                /\ \A j \in 1..Len(rc.scored) :
                       (~article_match(rc.q0, rc.scored[j][2])
                            /\ rc.scored[j][1] < rc.scored[i][1]
                            /\ place(rc.scored[j][2]) # 0) =>
                           /\ place(rc.scored[i][2]) # 0
                           /\ place(rc.scored[i][2]) < place(rc.scored[j][2])

\* "article 14": the chunk of article 14 is returned before a chunk of
\* another article that the store scored higher
C15_Witness ==
    /\ rc.phase = "returned"
    /\ rc.path = "reranked"
    /\ rc.q0 = Q_art14
    /\ \E i, j \in 1..Len(rc.scored) :
          /\ article_match(rc.q0, rc.scored[i][2])
          /\ ~article_match(rc.q0, rc.scored[j][2])
          /\ rc.scored[j][2].score > rc.scored[i][2].score
          /\ rc.scored[j][1] < rc.scored[i][1]
          /\ place(rc.scored[j][2]) # 0
          /\ place(rc.scored[i][2]) # 0
          /\ place(rc.scored[i][2]) < place(rc.scored[j][2])

----------------------------------------------------------------------------
(* Properties of answer(): translation, the endpoints, the ladders         *)

\* answer() returned an LLM text of the grounded generation on one of the
\* paths that hand their text to _translate_from_english: the streaming path
\* when the stream worked, and the non-streaming loop
grounded_direct ==
    /\ calls.llm_compress > 0
    /\ calls.llm_free = 0
    /\ stream => calls.llm_generate = 0
    /\ out.status = "returned"
    /\ out.text.kind = "llm"

C16_EndpointsAlwaysAnswer ==
    pc = "responded" =>
        /\ resp.sent
        /\ resp.via \in {"post", "get"}
        /\ resp.answer.kind # "none" \/ out.status = "returned"
        /\ out.status = "raised" => resp.answer = SafeMessage
        /\ out.status = "returned" => resp.answer = out.text
        /\ out.status = "none" => (resp.via = "get" /\ resp.answer = MissingQueryMessage)

\* POST /chat/ask answered with the safe message after the vector store
\* made answer() raise
C16_Witness ==
    /\ pc = "responded"
    /\ resp.via = "post"
    /\ out.status = "raised"
    /\ error = "vector_store"
    /\ resp.answer = SafeMessage

\* C17: after stream_generate failed, the tiers are tried in the order
\* non-streaming grounded generation, English free mode, guidance; a tier is
\* entered only when every attempt of the tiers before it has been made and
\* has failed, and the text of the first tier that succeeds (the guidance
\* for the detected language if none does) is the one item yielded.
C17_StreamingLadder ==
    /\ pc = "stream_fallback" =>
          /\ stream
          /\ calls.llm_stream = 1
          /\ calls.llm_generate = attempt
          /\ calls.llm_free = 0
          /\ out = NoOut
    /\ pc = "stream_free" =>
          /\ stream
          /\ calls.llm_stream = 1
          /\ calls.llm_generate = RETRY_ATTEMPTS
          /\ calls.llm_free = 0
          /\ out = NoOut
    /\ (pc = "transient" /\ stream) =>
          /\ calls.llm_stream = 1
          /\ calls.llm_generate = RETRY_ATTEMPTS
          /\ calls.llm_free = 1
          /\ out = NoOut
    /\ (pc = "done" /\ stream /\ calls.llm_stream = 1 /\ calls.llm_generate > 0) =>
          /\ out.status = "returned"
          /\ out.text.kind \in {"llm", "guidance"}
          /\ calls.llm_free = 0 => out.text.kind = "llm"
          /\ calls.llm_free > 0 =>
                 /\ calls.llm_generate = RETRY_ATTEMPTS
                 /\ calls.llm_free = 1
          /\ out.text.kind = "guidance" =>
                 /\ calls.llm_free = 1
                 /\ out.text = format_output(clean_legal_response(guidance_message(lang, TRUE)))

\* A streaming call whose stream and grounded attempts failed and whose
\* free-mode attempt gave the text yielded
C17_Witness ==
    /\ pc = "done"
    /\ stream
    /\ calls.llm_stream = 1
    /\ calls.llm_generate = RETRY_ATTEMPTS
    /\ calls.llm_free = 1
    /\ out.text.kind = "llm"
    /\ out.text.body = T_ok

\* C18: in every tier of answer() at most 3 generation calls are made (the
\* free-mode calls, the non-streaming grounded calls whether in the
\* non-streaming loop or in the streaming fallback, and the one streaming
\* call), and once a generation call has succeeded and answer() has its
\* text no further generation call is made for the request.
C18_BoundedGenerationCalls ==
    /\ [](/\ calls.llm_free <= 3
          /\ calls.llm_generate <= 3
          /\ calls.llm_stream <= 1)
    /\ [][out.status # "none" =>
             (generation_calls' = generation_calls \/ out'.status = "none")]_vars

\* A request without contexts whose two free-mode passes failed and whose
\* third free-mode call gave the answer
C18_Witness ==
    /\ pc = "done"
    /\ ~stream
    /\ calls.llm_free = 3
    /\ out.status = "returned"
    /\ out.text.kind = "llm"
    /\ out.text.body = T_ok

\* C19: for a detected language other than English, whenever a grounded
\* generation succeeded with a text, that text went through the
\* translate-back call before answer() returned or yielded it, on the
\* non-streaming fallback after a streaming failure as well.
C19_GroundedSuccessTranslatedBack ==
    (/\ pc = "done"
     /\ lang # EN
     /\ calls.llm_compress > 0
     /\ calls.llm_free = 0
     /\ out.status = "returned"
     /\ out.text.kind = "llm"
     /\ NonEmptyText(out.text)) => back.made

----------------------------------------------------------------------------
(* Properties of _compress_contexts                                        *)

----------------------------------------------------------------------------
(* Properties of the process-wide singletons                               *)

\* C24: across any interleaving of concurrent requests the body of
\* _load_legal_links runs at most once per process, and every caller
\* receives the same map instance.
C24_LinkMapLoadedOnce ==
    /\ ll.loads <= 1
    /\ Cardinality(ll.rets) <= 1
    /\ \A t \in Threads : ll.got[t] # 0 => ll.got[t] = ll.cache

\* C25: _with_retries calls the wrapped client function at most 3 times; it
\* returns the result of the first successful call without calling again;
\* when all 3 calls fail it raises the exception of the third call; it never
\* returns normally without a successful call.
C25_WithRetries ==
    /\ wr.made <= 3
    /\ wr.phase = "returned" =>
          /\ wr.out.status = "returned"
          /\ wr.made >= 1
          /\ wr.plan[wr.made].ok
          /\ wr.out.val = wr.plan[wr.made].val
          /\ \A k \in 1..(wr.made - 1) : ~wr.plan[k].ok
    /\ wr.phase = "raised" =>
          /\ wr.out.status = "raised"
          /\ wr.made = 3
          /\ \A k \in 1..3 : ~wr.plan[k].ok
          /\ wr.out.val = wr.plan[3].val
    /\ (wr.phase \in {"returned", "raised"} /\ \A k \in 1..3 : ~wr.plan[k].ok) =>
          wr.phase = "raised"

\* three different failures: the third one is raised
C25_Witness ==
    /\ wr.phase = "raised"
    /\ wr.made = 3
    /\ wr.plan[1].val # wr.plan[3].val
    /\ wr.plan[2].val # wr.plan[3].val
    /\ wr.out.val = wr.plan[3].val

\* the second call succeeds and the third is not made
C25_WitnessSuccess ==
    /\ wr.phase = "returned"
    /\ wr.made = 2
    /\ wr.plan[3].ok
    /\ wr.plan[3].val # wr.out.val

\* C27: ensure_collection creates the collection only when it does not
\* exist: whatever the existence check does, the points stored in an
\* existing collection are left unchanged by retrieve_context (they stay)
\* and by ingest_file (none of them is lost).
C27_ExistingCollectionKept ==
    [][(/\ collExists
        /\ \/ pc = "retrieve" /\ pc' # "retrieve"
           \/ \E d \in DocIds : bg[d] = "pending" /\ bg'[d] = "done")
       => points \subseteq points']_vars

\* C26: across any interleaving of concurrent first callers at most one
\* QdrantClient is constructed per process, and every caller receives that
\* same instance.
C26_OneQdrantClient ==
    /\ qc.built <= 1
    /\ Cardinality(qc.rets) <= 1
    /\ \A t \in Threads : qc.got[t] # 0 => qc.got[t] = qc.instance

----------------------------------------------------------------------------
(* Properties of the admin router                                          *)

\* C29: once a document has been approved it stays in the approved set that
\* answer()'s gating reads until an unapprove or a delete call for it; the
\* completion of its background ingestion does not change its approval.
C29_ApprovalStays ==
    [][\A d \in DocIds :
          (/\ d \in approved_ids_of(meta)
           /\ ~unapprove_document(d)
           /\ ~delete_document(d))
          => d \in approved_ids_of(meta')]_vars

\* C30: after the delete endpoint has removed a document, its doc_id never
\* appears again in list_documents, whatever the interleaving of the delete
\* with the background ingestion of that document. (A doc_id that has been
\* uploaded and has no entry has been deleted: doc_ids are never reused.)
C30_DeletedStaysDeleted ==
    [][\A d \in DocIds :
          (bg[d] # "none" /\ d \notin list_documents(meta))
          => d \notin list_documents(meta')]_vars

----------------------------------------------------------------------------
(* Properties of LLMClient.stream_generate                                 *)

\* C28: with the Google provider all the tokens yielded by one call of
\* stream_generate come from the stream of a single candidate model: the
\* tokens yielded by a candidate that then fails are never followed by
\* tokens of another candidate.
C28_TokensOfOneCandidate ==
    \A i, j \in 1..Len(sg.yielded) : sg.yielded[i].cand = sg.yielded[j].cand

====
